---------------------------- MODULE Spec2Model ----------------------------
(***************************************************************************)
(* GreenCart Logistics: the delivery simulation engine                     *)
(* (SimulationService.runSimulation and its helpers) as a state machine.   *)
(*                                                                         *)
(* JavaScript numbers are modelled as exact rationals <<num, den>> in      *)
(* lowest terms (den > 0).  JavaScript strings that the code takes apart   *)
(* (time strings) are sequences of one-character strings.                  *)
(***************************************************************************)
EXTENDS Integers, Sequences, FiniteSets, TLC

(***************************************************************************)
(* Bounds of the model.                                                    *)
(***************************************************************************)
MaxDrivers == 2
MaxOrders == 3
MaxHandlers == 2
MaxRuns == 2

(***************************************************************************)
(* Number arithmetic.                                                      *)
(***************************************************************************)
RECURSIVE GCD(_, _)
GCD(a, b) == IF b = 0 THEN a ELSE GCD(b, a % b)

Abs(n) == IF n < 0 THEN -n ELSE n

Rat(n, d) ==
    LET s == IF d < 0 THEN -1 ELSE 1
        g == GCD(Abs(n), Abs(d))
    IN  <<(s * n) \div g, (s * d) \div g>>

Num(n) == <<n, 1>>

RAdd(x, y) == Rat(x[1] * y[2] + y[1] * x[2], x[2] * y[2])
RSub(x, y) == Rat(x[1] * y[2] - y[1] * x[2], x[2] * y[2])
RMul(x, y) == Rat(x[1] * y[1], x[2] * y[2])
RDiv(x, y) == Rat(x[1] * y[2], x[2] * y[1])
RLe(x, y) == x[1] * y[2] <= y[1] * x[2]
RLt(x, y) == x[1] * y[2] < y[1] * x[2]
RAbs(x) == <<Abs(x[1]), x[2]>>
RMin(x, y) == IF RLe(x, y) THEN x ELSE y

RECURSIVE RSum(_)
RSum(s) == IF s = <<>> THEN Num(0) ELSE RAdd(s[1], RSum(Tail(s)))

\* floor(x) and x % 60 for a number x, as Math.floor and the JS remainder give
\* them (the remainder takes the sign of the dividend).
RFloor(x) == x[1] \div x[2]
RRem60(x) ==
    LET q == IF x[1] >= 0 THEN x[1] \div (60 * x[2])
                          ELSE -((-x[1]) \div (60 * x[2]))
    IN  RSub(x, Num(60 * q))


(***************************************************************************)
(* Strings: a time string is a sequence of one-character strings.          *)
(***************************************************************************)
Digits == <<"0", "1", "2", "3", "4", "5", "6", "7", "8", "9">>

IsDigit(c) == \E i \in 1..10 : Digits[i] = c
DigitVal(c) == (CHOOSE i \in 1..10 : Digits[i] = c) - 1

\* String.prototype.split(':'): the pieces between the separators; a string
\* without the separator is one piece, the empty string is one empty piece.
RECURSIVE SplitFrom(_, _, _)
SplitFrom(s, i, piece) ==
    IF i > Len(s) THEN <<piece>>
    ELSE IF s[i] = ":" THEN <<piece>> \o SplitFrom(s, i + 1, <<>>)
    ELSE SplitFrom(s, i + 1, Append(piece, s[i]))

Split(s) == SplitFrom(s, 1, <<>>)

\* Number(piece) for pieces over digits and other characters: the empty
\* string is 0, a run of decimal digits is its value, anything else is NaN.
RECURSIVE DecimalValue(_, _)
DecimalValue(piece, acc) ==
    IF piece = <<>> THEN acc
    ELSE DecimalValue(Tail(piece), 10 * acc + DigitVal(Head(piece)))

\* The result is [nan |-> TRUE, val |-> 0] for NaN.
ToNumber(piece) ==
    IF \A i \in 1..Len(piece) : IsDigit(piece[i])
        THEN [nan |-> FALSE, val |-> DecimalValue(piece, 0)]
        ELSE [nan |-> TRUE, val |-> 0]

\* undefined, mapped through Number, is NaN.
Undefined == [nan |-> TRUE, val |-> 0]

\* (x || 0) for x a number or NaN.
OrZero(x) == IF x.nan THEN 0 ELSE x.val

\* parseTime: split on ':', map Number, take the first two, (h||0)*60+(m||0).
\* It has no failure path.
parseTime(timeStr) ==
    LET parts == Split(timeStr)
        hours == ToNumber(parts[1])
        minutes == IF Len(parts) >= 2 THEN ToNumber(parts[2]) ELSE Undefined
    IN  OrZero(hours) * 60 + OrZero(minutes)

\* Number.prototype.toString for an integer.
RECURSIVE NatToString(_)
NatToString(n) ==
    IF n < 10 THEN <<Digits[n + 1]>>
    ELSE Append(NatToString(n \div 10), Digits[(n % 10) + 1])

IntToString(n) == IF n < 0 THEN <<"-">> \o NatToString(-n) ELSE NatToString(n)

\* Mutation: no padding.
PadStart2None(s) == s

\* padStart(2, '0')
PadStart2(s) ==
    IF Len(s) >= 2 THEN s
    ELSE IF Len(s) = 1 THEN <<"0">> \o s
    ELSE <<"0", "0">>

\* formatTime(minutes) for a number of minutes (a rational).
formatTime(minutes) ==
    LET hours == RFloor(RDiv(minutes, Num(60)))
        mins == RFloor(RRem60(minutes))
    IN  PadStart2(IntToString(hours)) \o <<":">> \o PadStart2(IntToString(mins))

\* The API boundary's pattern /^([0-1]?[0-9]|2[0-3]):[0-5][0-9]$/.
MatchesTimeRegex(s) ==
    LET hourOk(h) ==
            \/ Len(h) = 1 /\ IsDigit(h[1])
            \/ Len(h) = 2 /\ h[1] \in {"0", "1"} /\ IsDigit(h[2])
            \/ Len(h) = 2 /\ h[1] = "2" /\ h[2] \in {"0", "1", "2", "3"}
        minOk(m) ==
            Len(m) = 2 /\ m[1] \in {"0", "1", "2", "3", "4", "5"} /\ IsDigit(m[2])
    IN  \E k \in 1..Len(s) :
            /\ s[k] = ":"
            /\ hourOk(SubSeq(s, 1, k - 1))
            /\ minOk(SubSeq(s, k + 1, Len(s)))

(***************************************************************************)
(* The delivery-time, cost and efficiency models.                          *)
(***************************************************************************)
\* Mutation: fatigue from eight hours on.
calculateDeliveryTimeFatigueFrom8(route, driver, startClock) ==
    LET afterTraffic ==
            CASE route.trafficLevel = "LOW" -> RMul(Num(route.baseTimeMin), Num(1))
              [] route.trafficLevel = "MEDIUM" -> RMul(Num(route.baseTimeMin), Rat(12, 10))
              [] route.trafficLevel = "HIGH" -> RMul(Num(route.baseTimeMin), Rat(15, 10))
              [] OTHER -> Num(route.baseTimeMin)
        yesterdayHours == driver.pastWeekHours[7]
    IN  IF yesterdayHours >= 8 THEN RMul(afterTraffic, Rat(13, 10)) ELSE afterTraffic

\* calculateDeliveryTime(route, driver, _startTime): the clock argument is
\* not read.
calculateDeliveryTime(route, driver, startClock) ==
    LET afterTraffic ==
            CASE route.trafficLevel = "LOW" -> RMul(Num(route.baseTimeMin), Num(1))
              [] route.trafficLevel = "MEDIUM" -> RMul(Num(route.baseTimeMin), Rat(12, 10))
              [] route.trafficLevel = "HIGH" -> RMul(Num(route.baseTimeMin), Rat(15, 10))
              [] OTHER -> Num(route.baseTimeMin)
        yesterdayHours == driver.pastWeekHours[7]
    IN  IF yesterdayHours > 8 THEN RMul(afterTraffic, Rat(13, 10)) ELSE afterTraffic

calculateFuelCost(route) ==
    LET fuelCostPerKm == IF route.trafficLevel = "HIGH" THEN 5 + 2 ELSE 5
    IN  RMul(Num(fuelCostPerKm), Num(route.distanceKm))

RECURSIVE SumSeq(_)
SumSeq(s) == IF s = <<>> THEN 0 ELSE Head(s) + SumSeq(Tail(s))

\* Mutation: utilization is not capped at 1.
calculateDriverEfficiencyUncapped(driver, totalTime) ==
    LET shiftHours == Num(driver.shiftHours)
        actualHours == RDiv(totalTime, Num(60))
        utilization == RDiv(actualHours, shiftHours)
        avgPastHours == RDiv(Num(SumSeq(driver.pastWeekHours)), Num(7))
        consistency ==
            RSub(Num(1), RDiv(RAbs(RSub(avgPastHours, shiftHours)), shiftHours))
    IN  RMul(RAdd(RMul(utilization, Rat(7, 10)), RMul(consistency, Rat(3, 10))),
             Num(100))

calculateDriverEfficiency(driver, totalTime) ==
    LET shiftHours == Num(driver.shiftHours)
        actualHours == RDiv(totalTime, Num(60))
        utilization == RMin(RDiv(actualHours, shiftHours), Num(1))
        avgPastHours == RDiv(Num(SumSeq(driver.pastWeekHours)), Num(7))
        consistency ==
            RSub(Num(1), RDiv(RAbs(RSub(avgPastHours, shiftHours)), shiftHours))
    IN  RMul(RAdd(RMul(utilization, Rat(7, 10)), RMul(consistency, Rat(3, 10))),
             Num(100))

\* generateSummary
RecEfficiency == "Consider optimizing driver assignments to improve efficiency"
RecPenalties == "High penalty costs suggest need for better route planning and time management"
RecFuel == "Fuel costs are high - consider route optimization and traffic avoidance"
RecBonuses == "Low bonus earnings - focus on high-value order prioritization"

\* Mutation: the rules form an else-if chain, the first that holds wins.
generateSummaryFirstRule(totalOrders, totalRoutes, efficiency, profit, fuelCost, penalties, bonuses) ==
    LET recs == IF RLt(efficiency, Num(70)) THEN <<RecEfficiency>>
                ELSE IF RLt(RMul(profit, Rat(1, 10)), penalties) THEN <<RecPenalties>>
                ELSE IF RLt(RMul(profit, Rat(3, 10)), fuelCost) THEN <<RecFuel>>
                ELSE IF RLt(bonuses, RMul(profit, Rat(5, 100))) THEN <<RecBonuses>>
                ELSE <<>>
    IN  [totalOrders |-> totalOrders,
         totalRoutes |-> totalRoutes,
         averageEfficiency |-> efficiency,
         profitMargin |->
            IF RLt(Num(0), profit)
                THEN RMul(RDiv(profit, RAdd(RAdd(profit, fuelCost), penalties)), Num(100))
                ELSE Num(0),
         recommendations |-> recs]

generateSummary(totalOrders, totalRoutes, efficiency, profit, fuelCost, penalties, bonuses) ==
    LET r1 == IF RLt(efficiency, Num(70)) THEN <<RecEfficiency>> ELSE <<>>
        r2 == IF RLt(RMul(profit, Rat(1, 10)), penalties) THEN <<RecPenalties>> ELSE <<>>
        r3 == IF RLt(RMul(profit, Rat(3, 10)), fuelCost) THEN <<RecFuel>> ELSE <<>>
        r4 == IF RLt(bonuses, RMul(profit, Rat(5, 100))) THEN <<RecBonuses>> ELSE <<>>
    IN  [totalOrders |-> totalOrders,
         totalRoutes |-> totalRoutes,
         averageEfficiency |-> efficiency,
         profitMargin |->
            IF RLt(Num(0), profit)
                THEN RMul(RDiv(profit, RAdd(RAdd(profit, fuelCost), penalties)), Num(100))
                ELSE Num(0),
         recommendations |-> r1 \o r2 \o r3 \o r4]

(***************************************************************************)
(* The data the runs draw on.                                              *)
(***************************************************************************)
T0800 == <<"0", "8", ":", "0", "0">>
T0900 == <<"0", "9", ":", "0", "0">>
T0910 == <<"0", "9", ":", "1", "0">>
T0920 == <<"0", "9", ":", "2", "0">>
T0005 == <<"0", "0", ":", "0", "5">>
T2400 == <<"2", "4", ":", "0", "0">>
TNoColon == <<"a", "b">>

EveryDay(h) == <<h, h, h, h, h, h, h>>

\* Driver records by id: D1 and D2 are the drivers of the documented
\* end-to-end scenario; D3 works half shifts and long past weeks.
DriverRec(id) ==
    LET k == ((id - 1) % 3) + 1
    IN  [id |-> id,
         name |-> "D" \o ToString(id),
         shiftHours |-> IF k = 3 THEN 4 ELSE 8,
         pastWeekHours |->
            IF k = 1 THEN EveryDay(8)
            ELSE IF k = 2 THEN <<8, 8, 8, 8, 8, 8, 10>>
            ELSE EveryDay(12),
         isActive |-> TRUE]

\* A store of n drivers, driver `off` (0: none) soft-deleted.
DriverStore(n, off) ==
    [i \in 1..n |-> [DriverRec(i) EXCEPT !.isActive = (i # off)]]

DriverStores ==
    UNION { {DriverStore(n, 0), DriverStore(n, n)} : n \in 0..MaxDrivers }

RouteStore ==
    << [id |-> 1, distanceKm |-> 10, trafficLevel |-> "LOW", baseTimeMin |-> 30,
        isActive |-> TRUE],
       [id |-> 2, distanceKm |-> 20, trafficLevel |-> "HIGH", baseTimeMin |-> 40,
        isActive |-> TRUE],
       [id |-> 3, distanceKm |-> 5, trafficLevel |-> "MEDIUM", baseTimeMin |-> 25,
        isActive |-> TRUE] >>

\* Route tables: the scenario's single route, or all three.
RouteStores == {SubSeq(RouteStore, 1, 1), RouteStore}

OrderKinds ==
    { [valueRs |-> 1200, routeId |-> 1, deliveryTime |-> T0900],
      [valueRs |-> 600, routeId |-> 1, deliveryTime |-> T0910],
      [valueRs |-> 1500, routeId |-> 1, deliveryTime |-> T0920],
      [valueRs |-> 1500, routeId |-> 2, deliveryTime |-> T0005] }

OrderRec(id, kind) ==
    [id |-> id,
     orderId |-> "O" \o ToString(id),
     valueRs |-> kind.valueRs,
     routeId |-> kind.routeId,
     deliveryTime |-> kind.deliveryTime,
     isActive |-> TRUE]

OrderStores ==
    UNION { {[i \in 1..n |-> OrderRec(i, f[i])] : f \in [1..n -> OrderKinds]}
            : n \in 0..MaxOrders }

\* SimulationRequest; an absent id list and an empty one are both {}.
Request(start, hours, dIds, rIds) ==
    [driverCount |-> 2, routeStartTime |-> start, maxHours |-> hours,
     driverIds |-> dIds, routeIds |-> rIds]

Requests ==
    { Request(T0800, 8, {}, {}),
      Request(T0800, 1, {}, {}),
      [Request(T0800, 2, {}, {}) EXCEPT !.driverCount = 1],
      Request(T0800, 1, {2}, {}),
      Request(T0800, 8, {}, {1, 3}),
      Request(T2400, 8, {}, {}),
      Request(TNoColon, 1, {}, {}) }

(***************************************************************************)
(* State.                                                                  *)
(***************************************************************************)
VARIABLES
    dbDrivers, dbOrders, dbRoutes, dbSimulations,   \* the store's tables
    request,                                        \* the run's request
    pc,                                             \* the run's position
    drivers, orders, routes,                        \* what the run loaded
    startTime, maxMinutes,
    assignments, driverIndex, currentTime, orderPos,    \* assignOrdersToDrivers
    totalProfit, totalFuelCost, totalPenalties, totalBonuses,
    onTimeDeliveries, totalDeliveries, totalDriverEfficiency,
    driverAssignments, orderResults,
    assignmentPos, orderIdPos, driverResult, driverTotalTime,   \* the replay loops
    efficiencyScore, summary,
    returned, thrown,                               \* the call's outcome
    fnIn, fnOut,                                    \* a direct call of one function
    handlers,                                       \* order / route requests in flight
    self, parked,                                   \* the running call, the suspended ones
    dbUsers, token, response                        \* accounts, the caller's token, the last answer

dbVars == <<dbDrivers, dbOrders, dbRoutes>>
fnVars == <<fnIn, fnOut>>
runnerVars == <<self, parked>>
authVars == <<dbUsers, token, response>>
envVars == <<fnVars, handlers, runnerVars, authVars>>
loadVars == <<drivers, orders, routes>>
assignVars == <<assignments, driverIndex, currentTime, orderPos>>
totalVars == <<totalProfit, totalFuelCost, totalPenalties, totalBonuses,
               onTimeDeliveries, totalDeliveries, totalDriverEfficiency>>
replayVars == <<driverAssignments, orderResults, assignmentPos, orderIdPos,
                driverResult, driverTotalTime>>
endVars == <<efficiencyScore, summary>>
outVars == <<returned, thrown>>
runVars == <<request, pc, loadVars, startTime, maxMinutes, assignVars, totalVars,
             replayVars, endVars, outVars>>

vars == <<dbVars, dbSimulations, request, pc, loadVars, startTime, maxMinutes,
          assignVars, totalVars, replayVars, endVars, outVars, envVars>>

NoDriverResult ==
    [driverId |-> 0, driverName |-> "", assignedOrders |-> <<>>,
     totalHours |-> Num(0), efficiency |-> Num(0)]

NoSummary ==
    [totalOrders |-> 0, totalRoutes |-> 0, averageEfficiency |-> Num(0),
     profitMargin |-> Num(0), recommendations |-> <<>>]

\* The locals of a call before its first statement.
LocalsInit ==
    /\ drivers = <<>> /\ orders = <<>> /\ routes = <<>>
    /\ startTime = 0 /\ maxMinutes = 0
    /\ assignments = <<>> /\ driverIndex = 0 /\ currentTime = Num(0) /\ orderPos = 1
    /\ totalProfit = Num(0) /\ totalFuelCost = Num(0)
    /\ totalPenalties = Num(0) /\ totalBonuses = Num(0)
    /\ onTimeDeliveries = 0 /\ totalDeliveries = 0
    /\ totalDriverEfficiency = Num(0)
    /\ driverAssignments = <<>> /\ orderResults = <<>>
    /\ assignmentPos = 1 /\ orderIdPos = 1
    /\ driverResult = NoDriverResult /\ driverTotalTime = Num(0)
    /\ efficiencyScore = Num(0) /\ summary = NoSummary
    /\ returned = <<>> /\ thrown = <<>>

\* No function is called on its own.
NoCall == [op |-> "none"]
FnIdle == fnIn = NoCall /\ fnOut = <<>>

\* No order or route request is in flight; the call is the only one.
NoHandlers == handlers = <<>>
OneRun == self = 1 /\ parked = <<>>

\* No caller of the auth and user routers: no accounts, no token, no answer.
NoResponse == [op |-> "none", status |-> 0]
NoCaller == dbUsers = <<>> /\ token = <<>> /\ response = NoResponse

\* One runSimulation call over a store nothing else touches.
Init ==
    /\ dbDrivers \in DriverStores
    /\ dbOrders \in OrderStores
    /\ dbRoutes \in RouteStores
    /\ \A i \in 1..Len(dbOrders) :
            \E j \in 1..Len(dbRoutes) : dbRoutes[j].id = dbOrders[i].routeId
    /\ dbSimulations = <<>>
    /\ request \in Requests
    /\ pc = "getAvailableDrivers"
    /\ LocalsInit
    /\ FnIdle /\ NoHandlers /\ OneRun /\ NoCaller

(***************************************************************************)
(* Loading: three separate reads of the store.                             *)
(***************************************************************************)
\* Mutation: soft-deleted drivers are not filtered out.
SelectDriversAnyStatus(table, driverIds) ==
    SelectSeq(table, LAMBDA d : driverIds = {} \/ d.id \in driverIds)

\* Mutation: at most driverCount of the matching drivers take part.
SelectDriversUpToCount(table, driverIds) ==
    LET matching ==
            SelectSeq(table, LAMBDA d : d.isActive /\ (driverIds = {} \/ d.id \in driverIds))
    IN  SubSeq(matching, 1, IF request.driverCount < Len(matching)
                              THEN request.driverCount ELSE Len(matching))

SelectDrivers(table, driverIds) ==
    SelectSeq(table, LAMBDA d : d.isActive /\ (driverIds = {} \/ d.id \in driverIds))

SelectOrders(table, routeIds) ==
    SelectSeq(table, LAMBDA o : o.isActive /\ (routeIds = {} \/ o.routeId \in routeIds))

SelectRoutes(table) == SelectSeq(table, LAMBDA r : r.isActive)

getAvailableDrivers ==
    /\ pc = "getAvailableDrivers"
    /\ drivers' = SelectDrivers(dbDrivers, request.driverIds)
    /\ pc' = "getAvailableOrders"
    /\ UNCHANGED <<envVars, dbVars, dbSimulations, request, orders, routes, startTime,
                   maxMinutes, assignVars, totalVars, replayVars, endVars, outVars>>

getAvailableOrders ==
    /\ pc = "getAvailableOrders"
    /\ orders' = SelectOrders(dbOrders, request.routeIds)
    /\ pc' = "getAvailableRoutes"
    /\ UNCHANGED <<envVars, dbVars, dbSimulations, request, drivers, routes, startTime,
                   maxMinutes, assignVars, totalVars, replayVars, endVars, outVars>>

getAvailableRoutes ==
    /\ pc = "getAvailableRoutes"
    /\ routes' = SelectRoutes(dbRoutes)
    /\ pc' = "check"
    /\ UNCHANGED <<envVars, dbVars, dbSimulations, request, drivers, orders, startTime,
                   maxMinutes, assignVars, totalVars, replayVars, endVars, outVars>>

(***************************************************************************)
(* The checks on what was loaded, and the start of the assignment pass.    *)
(***************************************************************************)
ErrNoDrivers == "No drivers available for simulation"
ErrNoOrders == "No orders available for simulation"
ErrTypeError == "TypeError"
ErrPersistence == "PrismaClientError"

Throw(message) ==
    /\ pc' = "failed"
    /\ thrown' = <<message>>
    /\ UNCHANGED returned

ThrowNoDrivers ==
    /\ pc = "check"
    /\ Len(drivers) = 0
    /\ Throw(ErrNoDrivers)
    /\ UNCHANGED <<envVars, dbVars, dbSimulations, request, loadVars, startTime, maxMinutes,
                   assignVars, totalVars, replayVars, endVars>>

ThrowNoOrders ==
    /\ pc = "check"
    /\ Len(drivers) # 0
    /\ Len(orders) = 0
    /\ Throw(ErrNoOrders)
    /\ UNCHANGED <<envVars, dbVars, dbSimulations, request, loadVars, startTime, maxMinutes,
                   assignVars, totalVars, replayVars, endVars>>

\* Lines 74-91 up to the first iteration of assignOrdersToDrivers.
BeginAssignment ==
    /\ pc = "check"
    /\ Len(drivers) # 0
    /\ Len(orders) # 0
    /\ startTime' = parseTime(request.routeStartTime)
    /\ maxMinutes' = request.maxHours * 60
    /\ assignments' = <<>>
    /\ driverIndex' = 0
    /\ currentTime' = Num(startTime')
    /\ orderPos' = 1
    /\ pc' = "assign"
    /\ UNCHANGED <<envVars, dbVars, dbSimulations, request, loadVars, totalVars, replayVars,
                   endVars, outVars>>

(***************************************************************************)
(* assignOrdersToDrivers: one loop iteration per step.                     *)
(***************************************************************************)
\* Array.prototype.find by id: the position of the first match, 0 if none.
FindById(table, id) ==
    IF \E i \in 1..Len(table) : table[i].id = id
        THEN CHOOSE i \in 1..Len(table) :
                /\ table[i].id = id
                /\ \A j \in 1..(i - 1) : table[j].id # id
        ELSE 0

\* Mutation: the driver's assignment is never found.
FindAssignmentNone(as, driverId) == 0

FindAssignment(as, driverId) ==
    IF \E i \in 1..Len(as) : as[i].driverId = driverId
        THEN CHOOSE i \in 1..Len(as) :
                /\ as[i].driverId = driverId
                /\ \A j \in 1..(i - 1) : as[j].driverId # driverId
        ELSE 0

\* Mutation: the rotation starts at a position taken from the shared store.
DriverAtFromStore(ds, index) == ds[((index + Len(dbSimulations)) % Len(ds)) + 1]

\* drivers[driverIndex % drivers.length]
DriverAt(ds, index) == ds[(index % Len(ds)) + 1]

\* Mutations of the capacity check: strict comparison; no check at all;
\* the order's own duration against the budget, the clock left out.
FitsStrict(clock, est, start, maxMin) == RLt(RAdd(clock, est), Num(start + maxMin))
FitsAlways(clock, est, start, maxMin) == TRUE
FitsAlone(clock, est, start, maxMin) == RLe(est, Num(maxMin))

\* currentTime + estimatedTime <= startTime + maxMinutes
Fits(clock, est, start, maxMin) == RLe(RAdd(clock, est), Num(start + maxMin))

\* Mutation: every push stamps the assignment with the clock again.
PushOrderRestamps(as, driverId, orderId, clock) ==
    LET i == FindAssignment(as, driverId)
    IN  IF i = 0
            THEN Append(as, [driverId |-> driverId, orderIds |-> <<orderId>>,
                             startTime |-> clock])
            ELSE [as EXCEPT ![i].orderIds = Append(@, orderId), ![i].startTime = clock]

\* Lines 280-291: find or create the driver's assignment, push the order.
PushOrder(as, driverId, orderId, clock) ==
    LET i == FindAssignment(as, driverId)
    IN  IF i = 0
            THEN Append(as, [driverId |-> driverId, orderIds |-> <<orderId>>,
                             startTime |-> clock])
            ELSE [as EXCEPT ![i].orderIds = Append(@, orderId)]

\* Mutation: the index advances only past a placed order.
NextDriverIndexIfPlaced(index, placed) == IF placed THEN index + 1 ELSE index

\* driverIndex++ at the end of the loop body, placed or not.
NextDriverIndex(index, placed) == index + 1

AssignOrder ==
    /\ pc = "assign"
    /\ orderPos <= Len(orders)
    /\ LET order == orders[orderPos]
           driver == DriverAt(drivers, driverIndex)
           r == FindById(routes, order.routeId)
       IN  IF r = 0
             THEN \* route is undefined: reading route.baseTimeMin throws
                  /\ Throw(ErrTypeError)
                  /\ UNCHANGED assignVars
             ELSE LET estimatedTime ==
                          calculateDeliveryTime(routes[r], driver, currentTime)
                      placed == Fits(currentTime, estimatedTime, startTime, maxMinutes)
                  IN  /\ assignments' =
                            IF placed
                              THEN PushOrder(assignments, driver.id, order.id, currentTime)
                              ELSE assignments
                      /\ currentTime' =
                            IF placed THEN RAdd(currentTime, estimatedTime)
                                      ELSE currentTime
                      /\ driverIndex' = NextDriverIndex(driverIndex, placed)
                      /\ orderPos' = orderPos + 1
                      /\ UNCHANGED <<pc, outVars>>
    /\ UNCHANGED <<envVars, dbVars, dbSimulations, request, loadVars, startTime, maxMinutes,
                   totalVars, replayVars, endVars>>

\* Mutation: a pass that placed nothing ends the run with an error.
EndAssignmentNeedsPlaced ==
    /\ pc = "assign"
    /\ orderPos > Len(orders)
    /\ IF assignments = <<>>
         THEN Throw(ErrNoOrders) /\ UNCHANGED assignmentPos
         ELSE pc' = "replayDriver" /\ assignmentPos' = 1 /\ UNCHANGED outVars
    /\ UNCHANGED <<envVars, dbVars, dbSimulations, request, loadVars, startTime, maxMinutes,
                   assignVars, totalVars, driverAssignments, orderResults,
                   orderIdPos, driverResult, driverTotalTime, endVars>>

EndAssignment ==
    /\ pc = "assign"
    /\ orderPos > Len(orders)
    /\ pc' = "replayDriver"
    /\ assignmentPos' = 1
    /\ UNCHANGED <<envVars, dbVars, dbSimulations, request, loadVars, startTime, maxMinutes,
                   assignVars, totalVars, driverAssignments, orderResults,
                   orderIdPos, driverResult, driverTotalTime, endVars, outVars>>

(***************************************************************************)
(* The replay of the assignments (lines 94-171).                           *)
(***************************************************************************)
ReplayDriver ==
    /\ pc = "replayDriver"
    /\ assignmentPos <= Len(assignments)
    /\ LET assignment == assignments[assignmentPos]
           driver == drivers[FindById(drivers, assignment.driverId)]
       IN  driverResult' = [driverId |-> driver.id, driverName |-> driver.name,
                            assignedOrders |-> <<>>, totalHours |-> Num(0),
                            efficiency |-> Num(0)]
    /\ driverTotalTime' = Num(0)
    /\ orderIdPos' = 1
    /\ pc' = "replayOrder"
    /\ UNCHANGED <<envVars, dbVars, dbSimulations, request, loadVars, startTime, maxMinutes,
                   assignVars, totalVars, driverAssignments, orderResults,
                   assignmentPos, endVars, outVars>>

\* Mutation: no ten-minute grace.
IsOnTimeNoGrace(actualDeliveryTime, expectedTime) ==
    RLe(actualDeliveryTime, Num(expectedTime))

\* isOnTime = actualDeliveryTime <= expectedTime + 10
IsOnTime(actualDeliveryTime, expectedTime) ==
    RLe(actualDeliveryTime, Num(expectedTime + 10))

\* Mutation: the lateness test inverted.
PenaltyInverted(isOnTime) == IF isOnTime THEN Num(50) ELSE Num(0)

\* Mutation: a late order costs 100.
PenaltyHundred(isOnTime) == IF ~isOnTime THEN Num(100) ELSE Num(0)

\* Lines 122-135.
Penalty(isOnTime) == IF ~isOnTime THEN Num(50) ELSE Num(0)

\* Mutation: the bonus threshold is inclusive.
BonusFrom1000(isOnTime, valueRs) ==
    IF isOnTime /\ valueRs >= 1000 THEN RMul(Num(valueRs), Rat(1, 10)) ELSE Num(0)

Bonus(isOnTime, valueRs) ==
    IF isOnTime /\ valueRs > 1000 THEN RMul(Num(valueRs), Rat(1, 10)) ELSE Num(0)

\* Line 146: driverTotalTime += actualDeliveryTime - (assignment.startTime + driverTotalTime)
NextDriverTotalTime(total, actualDeliveryTime, assignmentStart) ==
    RAdd(total, RSub(actualDeliveryTime, RAdd(assignmentStart, total)))

\* Mutation: the order's profit leaves the fuel cost out.
OrderOutcomeBeforeFuel(order, route, driver, clock) ==
    LET actualDeliveryTime == calculateDeliveryTime(route, driver, clock)
        expectedTime == parseTime(order.deliveryTime)
        isOnTime == IsOnTime(actualDeliveryTime, expectedTime)
        penalty == Penalty(isOnTime)
        bonus == Bonus(isOnTime, order.valueRs)
        fuelCost == calculateFuelCost(route)
    IN  [actualDeliveryTime |-> actualDeliveryTime,
         expectedTime |-> expectedTime,
         isOnTime |-> isOnTime,
         penalty |-> penalty,
         bonus |-> bonus,
         fuelCost |-> fuelCost,
         orderProfit |-> RSub(RAdd(Num(order.valueRs), bonus), penalty)]

\* Lines 110-143: what the inner loop computes for one order.
OrderOutcome(order, route, driver, clock) ==
    LET actualDeliveryTime == calculateDeliveryTime(route, driver, clock)
        expectedTime == parseTime(order.deliveryTime)
        isOnTime == IsOnTime(actualDeliveryTime, expectedTime)
        penalty == Penalty(isOnTime)
        bonus == Bonus(isOnTime, order.valueRs)
        fuelCost == calculateFuelCost(route)
    IN  [actualDeliveryTime |-> actualDeliveryTime,
         expectedTime |-> expectedTime,
         isOnTime |-> isOnTime,
         penalty |-> penalty,
         bonus |-> bonus,
         fuelCost |-> fuelCost,
         orderProfit |->
            RSub(RSub(RAdd(Num(order.valueRs), bonus), penalty), fuelCost)]

ReplayOrder ==
    /\ pc = "replayOrder"
    /\ orderIdPos <= Len(assignments[assignmentPos].orderIds)
    /\ LET assignment == assignments[assignmentPos]
           driver == drivers[FindById(drivers, assignment.driverId)]
           orderId == assignment.orderIds[orderIdPos]
           order == orders[FindById(orders, orderId)]
           route == routes[FindById(routes, order.routeId)]
           outcome == OrderOutcome(order, route, driver,
                                   RAdd(assignment.startTime, driverTotalTime))
           actualDeliveryTime == outcome.actualDeliveryTime
           isOnTime == outcome.isOnTime
           penalty == outcome.penalty
           bonus == outcome.bonus
           fuelCost == outcome.fuelCost
           orderProfit == outcome.orderProfit
           newTotal == NextDriverTotalTime(driverTotalTime, actualDeliveryTime,
                                           assignment.startTime)
       IN  /\ totalPenalties' = RAdd(totalPenalties, penalty)
           /\ onTimeDeliveries' = IF isOnTime THEN onTimeDeliveries + 1
                                              ELSE onTimeDeliveries
           /\ totalBonuses' = RAdd(totalBonuses, bonus)
           /\ totalFuelCost' = RAdd(totalFuelCost, fuelCost)
           /\ totalProfit' = RAdd(totalProfit, orderProfit)
           /\ driverTotalTime' = newTotal
           /\ driverResult' =
                 [driverResult EXCEPT !.assignedOrders = Append(@, orderId)]
           /\ orderResults' = Append(orderResults,
                 [orderId |-> order.orderId,
                  driverId |-> driver.id,
                  routeId |-> route.id,
                  deliveryTime |-> order.deliveryTime,
                  actualTime |-> formatTime(RAdd(assignment.startTime, newTotal)),
                  isOnTime |-> isOnTime,
                  penalty |-> penalty,
                  bonus |-> bonus,
                  fuelCost |-> fuelCost])
           /\ totalDeliveries' = totalDeliveries + 1
    /\ orderIdPos' = orderIdPos + 1
    /\ UNCHANGED <<envVars, dbVars, dbSimulations, request, pc, loadVars, startTime, maxMinutes,
                   assignVars, totalDriverEfficiency, driverAssignments,
                   assignmentPos, endVars, outVars>>

\* Lines 165-170.
FinishDriver ==
    /\ pc = "replayOrder"
    /\ orderIdPos > Len(assignments[assignmentPos].orderIds)
    /\ LET driver == drivers[FindById(drivers, assignments[assignmentPos].driverId)]
           efficiency == calculateDriverEfficiency(driver, driverTotalTime)
           finished == [driverResult EXCEPT
                           !.totalHours = RDiv(driverTotalTime, Num(60)),
                           !.efficiency = efficiency]
       IN  /\ driverResult' = finished
           /\ driverAssignments' = Append(driverAssignments, finished)
           /\ totalDriverEfficiency' = RAdd(totalDriverEfficiency, efficiency)
    /\ assignmentPos' = assignmentPos + 1
    /\ pc' = "replayDriver"
    /\ UNCHANGED <<envVars, dbVars, dbSimulations, request, loadVars, startTime, maxMinutes,
                   assignVars, totalProfit, totalFuelCost, totalPenalties,
                   totalBonuses, onTimeDeliveries, totalDeliveries, orderResults,
                   orderIdPos, driverTotalTime, endVars, outVars>>

(***************************************************************************)
(* The score, the summary, the write and the return (lines 173-217).       *)
(***************************************************************************)
\* Mutation: the mean is taken over every loaded driver.
EfficiencyScoreOfLoaded(total, n) ==
    IF n > 0 THEN RDiv(total, Num(Len(drivers))) ELSE Num(0)

EfficiencyScore(total, n) == IF n > 0 THEN RDiv(total, Num(n)) ELSE Num(0)

Summarise ==
    /\ pc = "replayDriver"
    /\ assignmentPos > Len(assignments)
    /\ efficiencyScore' = EfficiencyScore(totalDriverEfficiency, Len(driverAssignments))
    /\ summary' = generateSummary(Len(orders), Len(routes), efficiencyScore',
                                  totalProfit, totalFuelCost, totalPenalties,
                                  totalBonuses)
    /\ pc' = "saveSimulation"
    /\ UNCHANGED <<envVars, dbVars, dbSimulations, request, loadVars, startTime, maxMinutes,
                   assignVars, totalVars, replayVars, outVars>>

\* The totals handed to saveSimulation and returned.
Results ==
    [totalProfit |-> totalProfit,
     efficiencyScore |-> efficiencyScore,
     onTimeDeliveries |-> onTimeDeliveries,
     totalDeliveries |-> totalDeliveries,
     fuelCost |-> totalFuelCost,
     penalties |-> totalPenalties,
     bonuses |-> totalBonuses]

SimulationData ==
    [driverAssignments |-> driverAssignments,
     orderResults |-> orderResults,
     summary |-> summary]

\* Mutation: penalties and bonuses written to each other's column.
SimulationRowSwapped(req, results, simulationData) ==
    [driverCount |-> req.driverCount,
     routeStartTime |-> req.routeStartTime,
     maxHours |-> req.maxHours,
     totalProfit |-> results.totalProfit,
     efficiencyScore |-> results.efficiencyScore,
     onTimeDeliveries |-> results.onTimeDeliveries,
     totalDeliveries |-> results.totalDeliveries,
     fuelCost |-> results.fuelCost,
     penalties |-> results.bonuses,
     bonuses |-> results.penalties,
     simulationData |-> simulationData]

\* The row saveSimulation builds for prisma.simulation.create.
SimulationRow(req, results, simulationData) ==
    [driverCount |-> req.driverCount,
     routeStartTime |-> req.routeStartTime,
     maxHours |-> req.maxHours,
     totalProfit |-> results.totalProfit,
     efficiencyScore |-> results.efficiencyScore,
     onTimeDeliveries |-> results.onTimeDeliveries,
     totalDeliveries |-> results.totalDeliveries,
     fuelCost |-> results.fuelCost,
     penalties |-> results.penalties,
     bonuses |-> results.bonuses,
     simulationData |-> simulationData]

\* What the call returns (lines 204-217).
SimulationResult(results, simulationData) ==
    [totalProfit |-> results.totalProfit,
     efficiencyScore |-> results.efficiencyScore,
     onTimeDeliveries |-> results.onTimeDeliveries,
     totalDeliveries |-> results.totalDeliveries,
     fuelCost |-> results.fuelCost,
     penalties |-> results.penalties,
     bonuses |-> results.bonuses,
     simulationData |-> simulationData]

\* The ids of the orders the assignment pass placed.
AssignedOrderIds ==
    UNION { {assignments[j].orderIds[i] : i \in 1..Len(assignments[j].orderIds)}
            : j \in 1..Len(assignments) }

\* Mutation: the write replaces the stored result instead of adding a row.
saveSimulationReplaces ==
    /\ pc = "saveSimulation"
    /\ dbSimulations' = <<SimulationRow(request, Results, SimulationData)>>
    /\ pc' = "return"
    /\ UNCHANGED <<envVars, dbVars, request, loadVars, startTime, maxMinutes,
                   assignVars, totalVars, replayVars, endVars, outVars>>

\* Mutation: the write also marks the loaded orders as handled.
saveSimulationClosesOrders ==
    /\ pc = "saveSimulation"
    /\ dbSimulations' = Append(dbSimulations,
                               SimulationRow(request, Results, SimulationData))
    /\ dbOrders' = [i \in 1..Len(dbOrders) |->
                        [dbOrders[i] EXCEPT !.isActive =
                            @ /\ dbOrders[i].id \notin AssignedOrderIds]]
    /\ pc' = "return"
    /\ UNCHANGED <<envVars, dbDrivers, dbRoutes, request, loadVars, startTime, maxMinutes,
                   assignVars, totalVars, replayVars, endVars, outVars>>

\* The awaited insert completes.
saveSimulation ==
    /\ pc = "saveSimulation"
    /\ dbSimulations' = Append(dbSimulations,
                               SimulationRow(request, Results, SimulationData))
    /\ pc' = "return"
    /\ UNCHANGED <<envVars, dbVars, request, loadVars, startTime, maxMinutes, assignVars,
                   totalVars, replayVars, endVars, outVars>>

\* The awaited insert rejects: the catch block rethrows.
saveSimulationFails ==
    /\ pc = "saveSimulation"
    /\ Throw(ErrPersistence)
    /\ UNCHANGED <<envVars, dbVars, dbSimulations, request, loadVars, startTime, maxMinutes,
                   assignVars, totalVars, replayVars, endVars>>

Return ==
    /\ pc = "return"
    /\ returned' = <<SimulationResult(Results, SimulationData)>>
    /\ pc' = "done"
    /\ UNCHANGED <<envVars, dbVars, dbSimulations, request, loadVars, startTime, maxMinutes,
                   assignVars, totalVars, replayVars, endVars, thrown>>

Next ==
    \/ getAvailableDrivers
    \/ getAvailableOrders
    \/ getAvailableRoutes
    \/ ThrowNoDrivers
    \/ ThrowNoOrders
    \/ BeginAssignment
    \/ AssignOrder
    \/ EndAssignment
    \/ ReplayDriver
    \/ ReplayOrder
    \/ FinishDriver
    \/ Summarise
    \/ saveSimulation
    \/ saveSimulationFails
    \/ Return

Spec == Init /\ [][Next]_vars

(***************************************************************************)
(* The functions of the service called on their own, each on one input     *)
(* drawn from a pool; no run is in progress.                               *)
(***************************************************************************)
T0020 == <<"0", "0", ":", "2", "0">>
T0050 == <<"0", "0", ":", "5", "0">>

TimeChars == {"0", "1", "2", "4", "6", "9"}
TimePieces(n) == UNION {[1..k -> TimeChars] : k \in 1..n}

\* Strings h:mm and hh:mm over TimeChars, inside and outside the pattern.
TimeInputs ==
    { [op |-> "time", timeStr |-> h \o <<":">> \o m]
        : h \in TimePieces(2), m \in [1..2 -> TimeChars] }

DeliveryInputs ==
    { [op |-> "delivery",
       route |-> [id |-> 1, distanceKm |-> 10, trafficLevel |-> level,
                  baseTimeMin |-> base, isActive |-> TRUE],
       driver |-> [DriverRec(1) EXCEPT !.pastWeekHours[7] = yesterday],
       clocks |-> c]
        : level \in {"LOW", "MEDIUM", "HIGH"}, base \in {25, 30, 40},
          yesterday \in {7, 8, 9},
          c \in {Num(0), Num(480), Rat(1039, 2)} \X {Num(0), Num(480), Rat(1039, 2)} }

OrderInputs ==
    { [op |-> "order",
       order |-> [OrderRec(1, [valueRs |-> v, routeId |-> r, deliveryTime |-> t])
                    EXCEPT !.id = 1],
       route |-> RouteStore[r],
       driver |-> DriverRec(d),
       clock |-> Num(480)]
        : v \in {600, 1000, 1200, 1500}, r \in 1..3,
          t \in {T0005, T0020, T0050, T0900}, d \in 1..2 }

EfficiencyInputs ==
    { [op |-> "efficiency",
       driver |-> [DriverRec(1) EXCEPT !.shiftHours = s, !.pastWeekHours = w],
       totalTime |-> t]
        : s \in {1, 8, 24},
          w \in {EveryDay(0), EveryDay(8), <<8, 8, 8, 8, 8, 8, 10>>, EveryDay(24)},
          t \in {Num(-450), Num(0), Num(30), Num(480), Num(600), Num(1500)} }

SummaryInputs ==
    { [op |-> "summary", efficiency |-> Num(e), profit |-> Num(p),
       fuelCost |-> Num(f), penalties |-> Num(pe), bonuses |-> Num(b)]
        : e \in {69, 70}, p \in {-1000, 0, 1000}, f \in {0, 300, 350},
          pe \in {0, 100, 150}, b \in {0, 50, 60} }

\* No run: an empty store and a call that never starts.
RunIdle ==
    /\ dbDrivers = <<>> /\ dbOrders = <<>> /\ dbRoutes = <<>>
    /\ dbSimulations = <<>>
    /\ request = Request(T0800, 8, {}, {})
    /\ pc = "idle"
    /\ LocalsInit

InitFn ==
    /\ RunIdle
    /\ fnIn \in TimeInputs \cup DeliveryInputs \cup OrderInputs
                \cup EfficiencyInputs \cup SummaryInputs
    /\ fnOut = <<>>
    /\ NoHandlers /\ OneRun /\ NoCaller

Called(op) == fnIn.op = op /\ fnOut # <<>>

\* formatTime(parseTime(timeStr))
CallTimeRoundTrip ==
    /\ fnIn.op = "time" /\ fnOut = <<>>
    /\ fnOut' = <<formatTime(Num(parseTime(fnIn.timeStr)))>>
    /\ UNCHANGED <<fnIn, dbVars, dbSimulations, runVars, handlers, runnerVars, authVars>>

\* calculateDeliveryTime as the assignment pass calls it (line 277) and as
\* the replay calls it (lines 111-115), each with its own clock argument.
CallDeliveryTime ==
    /\ fnIn.op = "delivery" /\ fnOut = <<>>
    /\ fnOut' = <<[estimatedTime |->
                      calculateDeliveryTime(fnIn.route, fnIn.driver, fnIn.clocks[1]),
                   actualDeliveryTime |->
                      calculateDeliveryTime(fnIn.route, fnIn.driver, fnIn.clocks[2])]>>
    /\ UNCHANGED <<fnIn, dbVars, dbSimulations, runVars, handlers, runnerVars, authVars>>

CallOrderOutcome ==
    /\ fnIn.op = "order" /\ fnOut = <<>>
    /\ fnOut' = <<OrderOutcome(fnIn.order, fnIn.route, fnIn.driver, fnIn.clock)>>
    /\ UNCHANGED <<fnIn, dbVars, dbSimulations, runVars, handlers, runnerVars, authVars>>

CallDriverEfficiency ==
    /\ fnIn.op = "efficiency" /\ fnOut = <<>>
    /\ fnOut' = <<calculateDriverEfficiency(fnIn.driver, fnIn.totalTime)>>
    /\ UNCHANGED <<fnIn, dbVars, dbSimulations, runVars, handlers, runnerVars, authVars>>

CallGenerateSummary ==
    /\ fnIn.op = "summary" /\ fnOut = <<>>
    /\ fnOut' = <<generateSummary(3, 1, fnIn.efficiency, fnIn.profit, fnIn.fuelCost,
                                  fnIn.penalties, fnIn.bonuses)>>
    /\ UNCHANGED <<fnIn, dbVars, dbSimulations, runVars, handlers, runnerVars, authVars>>

NextFn ==
    \/ CallTimeRoundTrip
    \/ CallDeliveryTime
    \/ CallOrderOutcome
    \/ CallDriverEfficiency
    \/ CallGenerateSummary

SpecFn == InitFn /\ [][NextFn]_vars

(***************************************************************************)
(* A run beside DELETE /api/orders/:id and DELETE /api/routes/:id          *)
(* requests.  The server is one thread: a handler step is taken only while *)
(* the run waits on the store (or is over), and each awaited store call of *)
(* a handler is one step.                                                  *)
(***************************************************************************)
DeleteOrderRequest(id) == [op |-> "deleteOrder", id |-> id, at |-> "findFirst", status |-> 0]
DeleteRouteRequest(id) == [op |-> "deleteRoute", id |-> id, at |-> "findFirst", status |-> 0]

\* POST /api/orders with body { orderId: NewOrderId, valueRs: 700, routeId: id,
\* deliveryTime: "09:00" }.
NewOrderId == "N1"
CreateOrderRequest(id) == [op |-> "createOrder", id |-> id, at |-> "findRoute", status |-> 0]

\* PUT /api/routes/:id with body { isActive: false }.
PutRouteRequest(id) == [op |-> "putRoute", id |-> id, at |-> "findFirst", status |-> 0]

HandlerRequests ==
    {DeleteOrderRequest(1), DeleteRouteRequest(1), DeleteRouteRequest(2),
     CreateOrderRequest(1), PutRouteRequest(1)}

\* Orders on route 1 and on route 2.
CrudOrderStores ==
    { s \in OrderStores :
        /\ Len(s) <= 2
        /\ \A i \in 1..Len(s) : s[i].valueRs \in {1200, 1500} }

InitCrud ==
    /\ dbDrivers \in {DriverStore(0, 0), DriverStore(MaxDrivers, 0)}
    /\ dbOrders \in CrudOrderStores
    /\ dbRoutes = RouteStore
    /\ dbSimulations = <<>>
    /\ request \in {Request(T0800, 8, {}, {}), Request(T0800, 1, {}, {})}
    /\ pc = "getAvailableDrivers"
    /\ LocalsInit
    /\ handlers \in [1..MaxHandlers -> HandlerRequests]
    /\ FnIdle /\ OneRun /\ NoCaller

\* The run is suspended in an awaited store call, has ended, or was never
\* started.
AtAwait ==
    pc \in {"getAvailableDrivers", "getAvailableOrders", "getAvailableRoutes",
            "saveSimulation", "done", "failed", "idle"}

Respond(h, status) ==
    handlers' = [handlers EXCEPT ![h].at = "done", ![h].status = status]

HasActive(table, id) == \E i \in 1..Len(table) : table[i].id = id /\ table[i].isActive

\* update({ where: { id }, data: { isActive: false } })
Deactivate(table, id) ==
    [i \in 1..Len(table) |->
        IF table[i].id = id THEN [table[i] EXCEPT !.isActive = FALSE] ELSE table[i]]

\* prisma.order.findFirst({ where: { id, isActive: true } })
DeleteOrderFindFirst(h) ==
    /\ AtAwait
    /\ handlers[h].op = "deleteOrder" /\ handlers[h].at = "findFirst"
    /\ IF HasActive(dbOrders, handlers[h].id)
         THEN handlers' = [handlers EXCEPT ![h].at = "update"]
         ELSE Respond(h, 404)
    /\ UNCHANGED <<dbVars, dbSimulations, runVars, fnVars, runnerVars, authVars>>

DeleteOrderUpdate(h) ==
    /\ AtAwait
    /\ handlers[h].op = "deleteOrder" /\ handlers[h].at = "update"
    /\ dbOrders' = Deactivate(dbOrders, handlers[h].id)
    /\ Respond(h, 200)
    /\ UNCHANGED <<dbDrivers, dbRoutes, dbSimulations, runVars, fnVars, runnerVars, authVars>>

\* prisma.route.findFirst({ where: { id, isActive: true } })
DeleteRouteFindFirst(h) ==
    /\ AtAwait
    /\ handlers[h].op = "deleteRoute" /\ handlers[h].at = "findFirst"
    /\ IF HasActive(dbRoutes, handlers[h].id)
         THEN handlers' = [handlers EXCEPT ![h].at = "count"]
         ELSE Respond(h, 400)
    /\ UNCHANGED <<dbVars, dbSimulations, runVars, fnVars, runnerVars, authVars>>

\* prisma.order.count({ where: { routeId: id, isActive: true } })
DeleteRouteCount(h) ==
    /\ AtAwait
    /\ handlers[h].op = "deleteRoute" /\ handlers[h].at = "count"
    /\ IF \E i \in 1..Len(dbOrders) :
             dbOrders[i].routeId = handlers[h].id /\ dbOrders[i].isActive
         THEN Respond(h, 400)
         ELSE handlers' = [handlers EXCEPT ![h].at = "update"]
    /\ UNCHANGED <<dbVars, dbSimulations, runVars, fnVars, runnerVars, authVars>>

DeleteRouteUpdate(h) ==
    /\ AtAwait
    /\ handlers[h].op = "deleteRoute" /\ handlers[h].at = "update"
    /\ dbRoutes' = Deactivate(dbRoutes, handlers[h].id)
    /\ Respond(h, 200)
    /\ UNCHANGED <<dbDrivers, dbOrders, dbSimulations, runVars, fnVars, runnerVars, authVars>>

\* POST /api/orders.  The body passes the checks of lines 230-251.
\* prisma.route.findFirst({ where: { id: routeId, isActive: true } })
CreateOrderFindRoute(h) ==
    /\ AtAwait
    /\ handlers[h].op = "createOrder" /\ handlers[h].at = "findRoute"
    /\ IF HasActive(dbRoutes, handlers[h].id)
         THEN handlers' = [handlers EXCEPT ![h].at = "findExisting"]
         ELSE Respond(h, 404)
    /\ UNCHANGED <<dbVars, dbSimulations, runVars, fnVars, runnerVars, authVars>>

\* prisma.order.findFirst({ where: { orderId, isActive: true } })
CreateOrderFindExisting(h) ==
    /\ AtAwait
    /\ handlers[h].op = "createOrder" /\ handlers[h].at = "findExisting"
    /\ IF \E i \in 1..Len(dbOrders) :
             dbOrders[i].orderId = NewOrderId /\ dbOrders[i].isActive
         THEN Respond(h, 409)
         ELSE handlers' = [handlers EXCEPT ![h].at = "create"]
    /\ UNCHANGED <<dbVars, dbSimulations, runVars, fnVars, runnerVars, authVars>>

\* The Order table's rule for orderId, "unique among active orders": a
\* write that would leave a second active row with the same orderId is
\* rejected.  id is the row being written, 0 for a new row.
OrderIdTakenAlways(table, orderId, id) == FALSE

OrderIdTaken(table, orderId, id) ==
    \E i \in 1..Len(table) :
        table[i].isActive /\ table[i].orderId = orderId /\ table[i].id # id

\* prisma.order.create: the row is inserted with the next id and is active
\* by default; a write the table rejects throws, and the catch answers 500.
CreateOrderCreate(h) ==
    /\ AtAwait
    /\ handlers[h].op = "createOrder" /\ handlers[h].at = "create"
    /\ IF OrderIdTaken(dbOrders, NewOrderId, 0)
         THEN Respond(h, 500) /\ UNCHANGED dbOrders
         ELSE /\ dbOrders' = Append(dbOrders,
                    [id |-> Len(dbOrders) + 1,
                     orderId |-> NewOrderId,
                     valueRs |-> 700,
                     routeId |-> handlers[h].id,
                     deliveryTime |-> T0900,
                     isActive |-> TRUE])
              /\ Respond(h, 201)
    /\ UNCHANGED <<dbDrivers, dbRoutes, dbSimulations, runVars, fnVars, runnerVars, authVars>>

\* PUT /api/routes/:id: prisma.route.findFirst({ where: { id, isActive: true } })
PutRouteFindFirst(h) ==
    /\ AtAwait
    /\ handlers[h].op = "putRoute" /\ handlers[h].at = "findFirst"
    /\ IF HasActive(dbRoutes, handlers[h].id)
         THEN handlers' = [handlers EXCEPT ![h].at = "update"]
         ELSE Respond(h, 404)
    /\ UNCHANGED <<dbVars, dbSimulations, runVars, fnVars, runnerVars, authVars>>

\* prisma.route.update({ where: { id }, data: { isActive } }): no look at the
\* orders on the route.
PutRouteUpdate(h) ==
    /\ AtAwait
    /\ handlers[h].op = "putRoute" /\ handlers[h].at = "update"
    /\ dbRoutes' = Deactivate(dbRoutes, handlers[h].id)
    /\ Respond(h, 200)
    /\ UNCHANGED <<dbDrivers, dbOrders, dbSimulations, runVars, fnVars, runnerVars, authVars>>

NextCrud ==
    \/ Next
    \/ \E h \in 1..Len(handlers) : DeleteOrderFindFirst(h)
    \/ \E h \in 1..Len(handlers) : DeleteOrderUpdate(h)
    \/ \E h \in 1..Len(handlers) : DeleteRouteFindFirst(h)
    \/ \E h \in 1..Len(handlers) : DeleteRouteCount(h)
    \/ \E h \in 1..Len(handlers) : DeleteRouteUpdate(h)
    \/ \E h \in 1..Len(handlers) : CreateOrderFindRoute(h)
    \/ \E h \in 1..Len(handlers) : CreateOrderFindExisting(h)
    \/ \E h \in 1..Len(handlers) : CreateOrderCreate(h)
    \/ \E h \in 1..Len(handlers) : PutRouteFindFirst(h)
    \/ \E h \in 1..Len(handlers) : PutRouteUpdate(h)

SpecCrud == InitCrud /\ [][NextCrud]_vars

(***************************************************************************)
(* runSimulation as a function of the three tables and the request: the    *)
(* same statements as the actions above, taken to the end in one go.       *)
(***************************************************************************)
RECURSIVE AssignFrom(_, _, _, _, _)
AssignFrom(in, k, as, index, clock) ==
    IF k > Len(in.orders) THEN [failed |-> FALSE, assignments |-> as]
    ELSE LET order == in.orders[k]
             driver == DriverAt(in.drivers, index)
             r == FindById(in.routes, order.routeId)
         IN  IF r = 0 THEN [failed |-> TRUE, assignments |-> as]
             ELSE LET estimatedTime ==
                          calculateDeliveryTime(in.routes[r], driver, clock)
                      placed == Fits(clock, estimatedTime, in.startTime, in.maxMinutes)
                  IN  AssignFrom(in, k + 1,
                                 IF placed
                                   THEN PushOrder(as, driver.id, order.id, clock)
                                   ELSE as,
                                 NextDriverIndex(index, placed),
                                 IF placed THEN RAdd(clock, estimatedTime) ELSE clock)

\* The accumulators before the replay.
NoTotals ==
    [totalProfit |-> Num(0), fuelCost |-> Num(0), penalties |-> Num(0),
     bonuses |-> Num(0), onTimeDeliveries |-> 0, totalDeliveries |-> 0,
     totalDriverEfficiency |-> Num(0), driverAssignments |-> <<>>,
     orderResults |-> <<>>, assignedOrders |-> <<>>, driverTotalTime |-> Num(0)]

\* The inner loop from the i-th order of the assignment on.
RECURSIVE ReplayOrdersFrom(_, _, _, _)
ReplayOrdersFrom(in, assignment, i, acc) ==
    IF i > Len(assignment.orderIds) THEN acc
    ELSE LET driver == in.drivers[FindById(in.drivers, assignment.driverId)]
             orderId == assignment.orderIds[i]
             order == in.orders[FindById(in.orders, orderId)]
             route == in.routes[FindById(in.routes, order.routeId)]
             outcome == OrderOutcome(order, route, driver,
                                     RAdd(assignment.startTime, acc.driverTotalTime))
             newTotal == NextDriverTotalTime(acc.driverTotalTime,
                                             outcome.actualDeliveryTime,
                                             assignment.startTime)
         IN  ReplayOrdersFrom(in, assignment, i + 1,
               [acc EXCEPT
                  !.penalties = RAdd(@, outcome.penalty),
                  !.onTimeDeliveries = IF outcome.isOnTime THEN @ + 1 ELSE @,
                  !.bonuses = RAdd(@, outcome.bonus),
                  !.fuelCost = RAdd(@, outcome.fuelCost),
                  !.totalProfit = RAdd(@, outcome.orderProfit),
                  !.driverTotalTime = newTotal,
                  !.assignedOrders = Append(@, orderId),
                  !.orderResults = Append(@,
                      [orderId |-> order.orderId,
                       driverId |-> driver.id,
                       routeId |-> route.id,
                       deliveryTime |-> order.deliveryTime,
                       actualTime |-> formatTime(RAdd(assignment.startTime, newTotal)),
                       isOnTime |-> outcome.isOnTime,
                       penalty |-> outcome.penalty,
                       bonus |-> outcome.bonus,
                       fuelCost |-> outcome.fuelCost]),
                  !.totalDeliveries = @ + 1])

\* The outer loop from the a-th assignment on.
RECURSIVE ReplayDriversFrom(_, _, _, _)
ReplayDriversFrom(in, as, a, acc) ==
    IF a > Len(as) THEN acc
    ELSE LET driver == in.drivers[FindById(in.drivers, as[a].driverId)]
             after == ReplayOrdersFrom(in, as[a], 1,
                         [acc EXCEPT !.assignedOrders = <<>>,
                                     !.driverTotalTime = Num(0)])
             efficiency == calculateDriverEfficiency(driver, after.driverTotalTime)
         IN  ReplayDriversFrom(in, as, a + 1,
               [after EXCEPT
                  !.driverAssignments = Append(@,
                      [driverId |-> driver.id,
                       driverName |-> driver.name,
                       assignedOrders |-> after.assignedOrders,
                       totalHours |-> RDiv(after.driverTotalTime, Num(60)),
                       efficiency |-> efficiency]),
                  !.totalDriverEfficiency = RAdd(@, efficiency)])

\* What the call ends with when the write succeeds: a thrown error or a
\* returned result.
RunAlone(driverTable, orderTable, routeTable, req) ==
    LET in == [drivers |-> SelectDrivers(driverTable, req.driverIds),
               orders |-> SelectOrders(orderTable, req.routeIds),
               routes |-> SelectRoutes(routeTable),
               startTime |-> parseTime(req.routeStartTime),
               maxMinutes |-> req.maxHours * 60]
    IN  IF Len(in.drivers) = 0 THEN [returned |-> <<>>, thrown |-> <<ErrNoDrivers>>]
        ELSE IF Len(in.orders) = 0 THEN [returned |-> <<>>, thrown |-> <<ErrNoOrders>>]
        ELSE LET assigned == AssignFrom(in, 1, <<>>, 0, Num(in.startTime))
             IN  IF assigned.failed
                   THEN [returned |-> <<>>, thrown |-> <<ErrTypeError>>]
                   ELSE
                     LET acc == ReplayDriversFrom(in, assigned.assignments, 1, NoTotals)
                         score == EfficiencyScore(acc.totalDriverEfficiency,
                                                  Len(acc.driverAssignments))
                         results ==
                            [totalProfit |-> acc.totalProfit,
                             efficiencyScore |-> score,
                             onTimeDeliveries |-> acc.onTimeDeliveries,
                             totalDeliveries |-> acc.totalDeliveries,
                             fuelCost |-> acc.fuelCost,
                             penalties |-> acc.penalties,
                             bonuses |-> acc.bonuses]
                         simulationData ==
                            [driverAssignments |-> acc.driverAssignments,
                             orderResults |-> acc.orderResults,
                             summary |->
                                generateSummary(Len(in.orders), Len(in.routes), score,
                                    acc.totalProfit, acc.fuelCost, acc.penalties,
                                    acc.bonuses)]
                     IN  [returned |-> <<SimulationResult(results, simulationData)>>,
                          thrown |-> <<>>]

(***************************************************************************)
(* Several runSimulation calls in one server process over a store nothing  *)
(* else changes.  One call runs at a time; while it waits on the store     *)
(* (or once it has ended) another suspended call may be resumed.  Each     *)
(* call has its own request and its own locals.                            *)
(***************************************************************************)
\* The request and locals of the running call.
Context ==
    [request |-> request,
     pc |-> pc,
     drivers |-> drivers,
     orders |-> orders,
     routes |-> routes,
     startTime |-> startTime,
     maxMinutes |-> maxMinutes,
     assignments |-> assignments,
     driverIndex |-> driverIndex,
     currentTime |-> currentTime,
     orderPos |-> orderPos,
     totalProfit |-> totalProfit,
     totalFuelCost |-> totalFuelCost,
     totalPenalties |-> totalPenalties,
     totalBonuses |-> totalBonuses,
     onTimeDeliveries |-> onTimeDeliveries,
     totalDeliveries |-> totalDeliveries,
     totalDriverEfficiency |-> totalDriverEfficiency,
     driverAssignments |-> driverAssignments,
     orderResults |-> orderResults,
     assignmentPos |-> assignmentPos,
     orderIdPos |-> orderIdPos,
     driverResult |-> driverResult,
     driverTotalTime |-> driverTotalTime,
     efficiencyScore |-> efficiencyScore,
     summary |-> summary,
     returned |-> returned,
     thrown |-> thrown]

\* A call that has not executed its first statement.
FreshContext(req) ==
    [request |-> req,
     pc |-> "getAvailableDrivers",
     drivers |-> <<>>,
     orders |-> <<>>,
     routes |-> <<>>,
     startTime |-> 0,
     maxMinutes |-> 0,
     assignments |-> <<>>,
     driverIndex |-> 0,
     currentTime |-> Num(0),
     orderPos |-> 1,
     totalProfit |-> Num(0),
     totalFuelCost |-> Num(0),
     totalPenalties |-> Num(0),
     totalBonuses |-> Num(0),
     onTimeDeliveries |-> 0,
     totalDeliveries |-> 0,
     totalDriverEfficiency |-> Num(0),
     driverAssignments |-> <<>>,
     orderResults |-> <<>>,
     assignmentPos |-> 1,
     orderIdPos |-> 1,
     driverResult |-> NoDriverResult,
     driverTotalTime |-> Num(0),
     efficiencyScore |-> Num(0),
     summary |-> NoSummary,
     returned |-> <<>>,
     thrown |-> <<>>]

\* The suspended call's request and locals become the running ones.
Resume(c) ==
    /\ request' = c.request
    /\ pc' = c.pc
    /\ drivers' = c.drivers
    /\ orders' = c.orders
    /\ routes' = c.routes
    /\ startTime' = c.startTime
    /\ maxMinutes' = c.maxMinutes
    /\ assignments' = c.assignments
    /\ driverIndex' = c.driverIndex
    /\ currentTime' = c.currentTime
    /\ orderPos' = c.orderPos
    /\ totalProfit' = c.totalProfit
    /\ totalFuelCost' = c.totalFuelCost
    /\ totalPenalties' = c.totalPenalties
    /\ totalBonuses' = c.totalBonuses
    /\ onTimeDeliveries' = c.onTimeDeliveries
    /\ totalDeliveries' = c.totalDeliveries
    /\ totalDriverEfficiency' = c.totalDriverEfficiency
    /\ driverAssignments' = c.driverAssignments
    /\ orderResults' = c.orderResults
    /\ assignmentPos' = c.assignmentPos
    /\ orderIdPos' = c.orderIdPos
    /\ driverResult' = c.driverResult
    /\ driverTotalTime' = c.driverTotalTime
    /\ efficiencyScore' = c.efficiencyScore
    /\ summary' = c.summary
    /\ returned' = c.returned
    /\ thrown' = c.thrown

\* The scenario's three orders, then a late order on the slow route, and on.
ConcOrderStore ==
    LET kinds == << [valueRs |-> 1200, routeId |-> 1, deliveryTime |-> T0900],
                    [valueRs |-> 600, routeId |-> 1, deliveryTime |-> T0910],
                    [valueRs |-> 1500, routeId |-> 2, deliveryTime |-> T0005],
                    [valueRs |-> 1500, routeId |-> 1, deliveryTime |-> T0920] >>
    IN  [i \in 1..MaxOrders |-> OrderRec(i, kinds[((i - 1) % 4) + 1])]

\* A full shift, a budget two orders fit in, one driver, no driver, no order;
\* the calls after the first are among the first two.
ConcRequests ==
    { Request(T0800, 8, {}, {}),
      Request(T0800, 1, {}, {}),
      Request(T0800, 8, {2}, {}),
      Request(T0800, 8, {MaxDrivers + 1}, {}),
      Request(T0800, 8, {}, {3}) }

InitConc ==
    /\ dbDrivers = DriverStore(MaxDrivers, 0)
    /\ dbOrders = ConcOrderStore
    /\ dbRoutes = RouteStore
    /\ dbSimulations = <<>>
    /\ request \in ConcRequests
    /\ pc = "getAvailableDrivers"
    /\ LocalsInit
    /\ self = 1
    /\ parked \in { p \in [1..MaxRuns -> {FreshContext(r) : r \in ConcRequests}] :
                      /\ p[1].request = request
                      /\ \A r \in 2..MaxRuns : p[r].request.driverIds = {}
                                                /\ p[r].request.routeIds = {} }
    /\ FnIdle /\ NoHandlers /\ NoCaller

\* The running call is suspended (or over) and call j, not over, is resumed.
Switch(j) ==
    /\ AtAwait
    /\ j # self
    /\ parked[j].pc \notin {"done", "failed"}
    /\ parked' = [parked EXCEPT ![self] = Context]
    /\ self' = j
    /\ Resume(parked[j])
    /\ UNCHANGED <<dbVars, dbSimulations, fnVars, handlers, authVars>>

NextConc ==
    \/ Next
    \/ \E j \in 1..Len(parked) : Switch(j)

SpecConc == InitConc /\ [][NextConc]_vars

(***************************************************************************)
(* Definitions the properties share.                                       *)
(***************************************************************************)
\* The run has started its assignment pass (startTime, maxMinutes are set).
InRun ==
    pc \in {"assign", "replayDriver", "replayOrder", "saveSimulation", "return", "done"}

AssignedIds(as) == UNION { {a.orderIds[i] : i \in 1..Len(a.orderIds)}
                           : a \in {as[j] : j \in 1..Len(as)} }

\* The position (from 1) of the order with this id in the loaded sequence.
PositionOf(orderId) == CHOOSE k \in 1..Len(orders) : orders[k].id = orderId

OrderById(orderId) == orders[PositionOf(orderId)]
RouteOf(order) == routes[CHOOSE j \in 1..Len(routes) : routes[j].id = order.routeId]
DriverById(driverId) ==
    drivers[CHOOSE j \in 1..Len(drivers) : drivers[j].id = driverId]

\* duration(route of the order, driver), in minutes.
Duration(orderId, driverId) ==
    LET route == RouteOf(OrderById(orderId))
        driver == DriverById(driverId)
        traffic == CASE route.trafficLevel = "LOW" -> Num(1)
                     [] route.trafficLevel = "MEDIUM" -> Rat(6, 5)
                     [] route.trafficLevel = "HIGH" -> Rat(3, 2)
        fatigue == IF driver.pastWeekHours[7] > 8 THEN Rat(13, 10) ELSE Num(1)
    IN  RMul(RMul(Num(route.baseTimeMin), traffic), fatigue)

RECURSIVE SumDurations(_, _)
SumDurations(orderIds, driverId) ==
    IF orderIds = <<>> THEN Num(0)
    ELSE RAdd(Duration(Head(orderIds), driverId),
              SumDurations(Tail(orderIds), driverId))

RECURSIVE SumAssignments(_)
SumAssignments(as) ==
    IF as = <<>> THEN Num(0)
    ELSE RAdd(SumDurations(Head(as).orderIds, Head(as).driverId),
              SumAssignments(Tail(as)))

\* Orders the pass has gone over without placing them.
DroppedIds ==
    {orders[k].id : k \in 1..(orderPos - 1)} \ AssignedIds(assignments)

\* The documented end-to-end scenario: D1, D2; R1; O1, O2, O3; 08:00; 8 hours.
IsScenario ==
    /\ dbDrivers = DriverStore(2, 0)
    /\ dbRoutes = SubSeq(RouteStore, 1, 1)
    /\ dbOrders = << OrderRec(1, [valueRs |-> 1200, routeId |-> 1, deliveryTime |-> T0900]),
                     OrderRec(2, [valueRs |-> 600, routeId |-> 1, deliveryTime |-> T0910]),
                     OrderRec(3, [valueRs |-> 1500, routeId |-> 1, deliveryTime |-> T0920]) >>
    /\ request = Request(T0800, 8, {}, {})

\* |x - target/1000| <= 5/1000: x rounds to the target at two decimals.
Approx(x, thousandths) ==
    /\ RLe(Rat(thousandths - 5, 1000), x)
    /\ RLe(x, Rat(thousandths + 5, 1000))

(***************************************************************************)
(* C1.  Every reported driver's total elapsed minutes (totalHours * 60,    *)
(* the value handed to the efficiency calculation) is the sum of           *)
(* duration(route, driver) over the orders assigned to that driver.        *)
(* The code does not keep this: line 146 leaves the duration of the last   *)
(* order minus the assignment's start clock.                               *)
(***************************************************************************)
C1_TotalMinutesIsSum ==
    \A i \in 1..Len(driverAssignments) :
        LET da == driverAssignments[i]
        IN  RMul(da.totalHours, Num(60)) = SumDurations(da.assignedOrders, da.driverId)

(***************************************************************************)
(* C2.  In the end-to-end scenario the run reports D1 efficiency 38.75,    *)
(* D2 efficiency about 34.62 and efficiencyScore about 36.68.  The code    *)
(* reports negative efficiencies there, through the total of C1.           *)
(***************************************************************************)
C2_ScenarioEfficiency ==
    (IsScenario /\ pc = "done") =>
        /\ Len(returned[1].simulationData.driverAssignments) = 2
        /\ returned[1].simulationData.driverAssignments[1].efficiency = Rat(3875, 100)
        /\ Approx(returned[1].simulationData.driverAssignments[2].efficiency, 34620)
        /\ Approx(returned[1].efficiencyScore, 36680)

(***************************************************************************)
(* C3.  In the end-to-end scenario D1 gets [O1, O3] and D2 gets [O2], all  *)
(* three orders are on time, and the run reports totalProfit 3420,         *)
(* fuelCost 150, bonuses 270, penalties 0, onTimeDeliveries 3 and          *)
(* totalDeliveries 3.                                                      *)
(***************************************************************************)
C3_ScenarioTotals ==
    (IsScenario /\ pc = "done") =>
        LET r == returned[1]
            das == r.simulationData.driverAssignments
            ors == r.simulationData.orderResults
        IN  /\ Len(das) = 2
            /\ das[1].driverId = 1 /\ das[1].assignedOrders = <<1, 3>>
            /\ das[2].driverId = 2 /\ das[2].assignedOrders = <<2>>
            /\ Len(ors) = 3
            /\ \A i \in 1..3 : ors[i].isOnTime
            /\ r.totalProfit = Num(3420)
            /\ r.fuelCost = Num(150)
            /\ r.bonuses = Num(270)
            /\ r.penalties = Num(0)
            /\ r.onTimeDeliveries = 3
            /\ r.totalDeliveries = 3

C3_Witness == IsScenario /\ pc = "done" /\ Len(returned) = 1

(***************************************************************************)
(* C4.  In the assignment pass an order is placed iff                      *)
(* clock + est <= routeStartTime + maxHours*60, est being the duration for *)
(* the order's route and the selected driver.  A placed order is appended  *)
(* to that driver's assignment and the clock advances by exactly est; an   *)
(* order that is not placed leaves clock and assignments unchanged, and    *)
(* the pass goes on to place later orders that fit.                        *)
(***************************************************************************)
\* A step of the pass over the order at orderPos.
PassStep == pc = "assign" /\ pc' = "assign" /\ orderPos' = orderPos + 1

C4_StepPlacesIffFits ==
    PassStep =>
        LET order == orders[orderPos]
            driver == drivers[(driverIndex % Len(drivers)) + 1]
            est == Duration(order.id, driver.id)
            budgetEnd == Num(parseTime(request.routeStartTime) + request.maxHours * 60)
            fits == RLe(RAdd(currentTime, est), budgetEnd)
            before == FindAssignment(assignments, driver.id)
            after == FindAssignment(assignments', driver.id)
        IN  /\ (order.id \in AssignedIds(assignments')) <=> fits
            /\ fits =>
                /\ currentTime' = RAdd(currentTime, est)
                /\ after # 0
                /\ assignments'[after].orderIds =
                      (IF before = 0 THEN <<>> ELSE assignments[before].orderIds)
                          \o <<order.id>>
                /\ \A j \in 1..Len(assignments) :
                      j # before => assignments'[j] = assignments[j]
                /\ Len(assignments') = Len(assignments) + (IF before = 0 THEN 1 ELSE 0)
            /\ ~fits => UNCHANGED <<currentTime, assignments>>

C4_PlacedIffFits == [][C4_StepPlacesIffFits]_vars

\* An order was dropped and a later order of the sequence was placed.
C4_Witness ==
    /\ pc = "assign"
    /\ \E j \in 1..(orderPos - 1) : \E k \in (j + 1)..(orderPos - 1) :
          /\ orders[j].id \in DroppedIds
          /\ orders[k].id \in AssignedIds(assignments)

(***************************************************************************)
(* C5.  The driver considered for the k-th order (k from 0) is             *)
(* drivers[k mod n]: the cyclic index advances by one for every order      *)
(* processed, placed or not.                                               *)
(***************************************************************************)
C5_DriverIsPositionModN ==
    InRun =>
        /\ pc = "assign" => driverIndex = orderPos - 1
        /\ \A i \in 1..Len(assignments) : \A j \in 1..Len(assignments[i].orderIds) :
              LET k == PositionOf(assignments[i].orderIds[j]) - 1
              IN  drivers[(k % Len(drivers)) + 1].id = assignments[i].driverId

\* With two or more drivers, an order placed after a dropped one.
C5_Witness ==
    /\ pc = "done"
    /\ Len(drivers) >= 2
    /\ \E j \in 1..Len(orders) : \E k \in (j + 1)..Len(orders) :
          /\ orders[j].id \in DroppedIds
          /\ orders[k].id \in AssignedIds(assignments)

(***************************************************************************)
(* C6.  An order that fails the capacity check is never assigned to any    *)
(* driver (not retried, not handed on), appears neither in orderResults    *)
(* nor in any driver's assignedOrders, and adds nothing to totalProfit,    *)
(* fuelCost, penalties, bonuses, onTimeDeliveries or totalDeliveries.      *)
(***************************************************************************)
ValueOfResult(r) ==
    LET o == CHOOSE o \in {orders[k] : k \in 1..Len(orders)} : o.orderId = r.orderId
    IN  Num(o.valueRs)

SumOver(ors, F(_)) == RSum([i \in 1..Len(ors) |-> F(ors[i])])

FuelOf(r) == r.fuelCost
PenaltyOf(r) == r.penalty
BonusOf(r) == r.bonus
ProfitOf(r) == RSub(RSub(RAdd(ValueOfResult(r), r.bonus), r.penalty), r.fuelCost)

\* The totals are sums over orderResults, whose orders are all placed ones.
TotalsCountPlacedOnly ==
    /\ \A i \in 1..Len(orderResults) :
          \E id \in AssignedIds(assignments) :
              /\ OrderById(id).orderId = orderResults[i].orderId
              /\ \A j \in 1..Len(orderResults) :
                    orderResults[j].orderId = orderResults[i].orderId => j = i
    /\ totalDeliveries = Len(orderResults)
    /\ onTimeDeliveries = Cardinality({i \in 1..Len(orderResults) : orderResults[i].isOnTime})
    /\ totalFuelCost = SumOver(orderResults, FuelOf)
    /\ totalPenalties = SumOver(orderResults, PenaltyOf)
    /\ totalBonuses = SumOver(orderResults, BonusOf)
    /\ totalProfit = SumOver(orderResults, ProfitOf)

DroppedAppearNowhere ==
    \A id \in DroppedIds :
        /\ \A i \in 1..Len(orderResults) : orderResults[i].orderId # OrderById(id).orderId
        /\ \A i \in 1..Len(driverAssignments) :
              \A j \in 1..Len(driverAssignments[i].assignedOrders) :
                  driverAssignments[i].assignedOrders[j] # id
        /\ \A j \in 1..Len(driverResult.assignedOrders) :
              driverResult.assignedOrders[j] # id

\* The order the pass took which driver's assignment holds it.
HolderOf(orderId) ==
    (CHOOSE a \in {assignments[j] : j \in 1..Len(assignments)} :
        \E i \in 1..Len(a.orderIds) : a.orderIds[i] = orderId).driverId

\* The shared clock when the pass reached position k: the start plus the
\* durations of the orders placed before it.
RECURSIVE ClockBefore(_)
ClockBefore(k) ==
    IF k = 1 THEN Num(parseTime(request.routeStartTime))
    ELSE LET id == orders[k - 1].id
             sofar == ClockBefore(k - 1)
         IN  IF id \in AssignedIds(assignments)
                THEN RAdd(sofar, Duration(id, HolderOf(id)))
                ELSE sofar

\* The order at position k failed the capacity check with its driver.
FailsCheck(k) ==
    LET driver == drivers[((k - 1) % Len(drivers)) + 1]
        est == Duration(orders[k].id, driver.id)
        budgetEnd == Num(parseTime(request.routeStartTime) + request.maxHours * 60)
    IN  ~RLe(RAdd(ClockBefore(k), est), budgetEnd)

C6_DroppedOrdersStayOut ==
    /\ InRun =>
          \A k \in 1..(orderPos - 1) : FailsCheck(k) => orders[k].id \in DroppedIds
    /\ DroppedAppearNowhere
    /\ TotalsCountPlacedOnly

\* A finished run that dropped an order and delivered others.
C6_Witness ==
    /\ pc = "done"
    /\ DroppedIds # {}
    /\ returned[1].totalDeliveries >= 1

(***************************************************************************)
(* C7.  The assignment clock is one value shared by all drivers: it is     *)
(* routeStartTime plus the durations of all orders placed so far, across   *)
(* every driver, and never exceeds routeStartTime + maxHours*60; the       *)
(* total duration of the placed orders is at most maxHours*60.             *)
(***************************************************************************)
C7_SharedClock ==
    InRun =>
        LET start == Num(parseTime(request.routeStartTime))
            budget == Num(request.maxHours * 60)
        IN  /\ currentTime = RAdd(start, SumAssignments(assignments))
            /\ RLe(currentTime, RAdd(start, budget))
            /\ RLe(SumAssignments(assignments), budget)

\* Two drivers hold orders and the shared budget has turned an order away.
C7_Witness ==
    /\ InRun
    /\ Len(assignments) >= 2
    /\ DroppedIds # {}

(***************************************************************************)
(* C8.  runSimulation fails with the no-drivers error when the filtered    *)
(* active driver set is empty and with the no-orders error when the        *)
(* filtered active order set is empty, the driver check first; then no     *)
(* result is returned and no simulation row is written.                    *)
(***************************************************************************)
NoDriverMatches ==
    \A i \in 1..Len(dbDrivers) :
        ~(/\ dbDrivers[i].isActive
          /\ (request.driverIds = {} \/ dbDrivers[i].id \in request.driverIds))

NoOrderMatches ==
    \A i \in 1..Len(dbOrders) :
        ~(/\ dbOrders[i].isActive
          /\ (request.routeIds = {} \/ dbOrders[i].routeId \in request.routeIds))

PastChecks ==
    pc \notin {"getAvailableDrivers", "getAvailableOrders", "getAvailableRoutes", "check"}

C8_EmptyInputsFail ==
    PastChecks =>
        /\ NoDriverMatches =>
              /\ pc = "failed" /\ thrown = <<ErrNoDrivers>>
              /\ returned = <<>> /\ dbSimulations = <<>>
        /\ (~NoDriverMatches /\ NoOrderMatches) =>
              /\ pc = "failed" /\ thrown = <<ErrNoOrders>>
              /\ returned = <<>> /\ dbSimulations = <<>>

\* Both sets empty, drivers present in the store but none selected.
C8_Witness ==
    /\ pc = "failed"
    /\ Len(dbDrivers) > 0
    /\ NoDriverMatches
    /\ NoOrderMatches
    /\ thrown = <<ErrNoDrivers>>

(***************************************************************************)
(* C9.  The engine re-validates routeStartTime: a run started with a       *)
(* string that does not match ^([0-1]?[0-9]|2[0-3]):[0-5][0-9]$ fails,     *)
(* returns no result and writes nothing.  parseTime has no failure path,   *)
(* so the code runs such a request to the end.                             *)
(***************************************************************************)
C9_MalformedStartFails ==
    ~MatchesTimeRegex(request.routeStartTime) =>
        /\ returned = <<>>
        /\ dbSimulations = <<>>
        /\ pc \notin {"assign", "replayDriver", "replayOrder", "saveSimulation",
                      "return", "done"}

(***************************************************************************)
(* C10.  A call returns a result only after its write has completed, the   *)
(* written row carries exactly the totals and simulationData returned,     *)
(* and a failed write fails the call without a result.                     *)
(***************************************************************************)
RowMatches(row, r) ==
    /\ row.totalProfit = r.totalProfit
    /\ row.efficiencyScore = r.efficiencyScore
    /\ row.onTimeDeliveries = r.onTimeDeliveries
    /\ row.totalDeliveries = r.totalDeliveries
    /\ row.fuelCost = r.fuelCost
    /\ row.penalties = r.penalties
    /\ row.bonuses = r.bonuses
    /\ row.simulationData = r.simulationData

C10_ReturnAfterWrite ==
    /\ returned # <<>> =>
          /\ pc = "done"
          /\ Len(dbSimulations) = 1
          /\ RowMatches(dbSimulations[1], returned[1])
    /\ pc = "failed" => returned = <<>>
    /\ thrown = <<ErrPersistence>> => (pc = "failed" /\ dbSimulations = <<>>)

\* A returned result with a late order and a bonus in it.
C10_Witness ==
    /\ pc = "done"
    /\ returned # <<>>
    /\ returned[1].penalties # Num(0)
    /\ returned[1].bonuses # Num(0)

(***************************************************************************)
(* C11.  A run, successful or failed, leaves every driver, route and order *)
(* record as it was; the only change it makes to the store is the          *)
(* insertion of one simulation record, made by the step that completes the *)
(* write, and a failed run inserts nothing.                                *)
(***************************************************************************)
C11_StepKeepsStore ==
    /\ UNCHANGED dbVars
    /\ \/ UNCHANGED dbSimulations
       \/ /\ pc = "saveSimulation" /\ pc' = "return"
          /\ Len(dbSimulations') = Len(dbSimulations) + 1
          /\ SubSeq(dbSimulations', 1, Len(dbSimulations)) = dbSimulations

C11_StoreFrame ==
    /\ [](Len(dbSimulations) <= 1 /\ (pc = "failed" => dbSimulations = <<>>))
    /\ [][C11_StepKeepsStore]_vars

\* A finished run over a store with orders it placed and an order it dropped.
C11_Witness ==
    /\ pc = "done"
    /\ Len(dbSimulations) = 1
    /\ AssignedOrderIds # {}
    /\ Len(orders) > Cardinality(AssignedOrderIds)

(***************************************************************************)
(* C14.  An order result is on time exactly when the delivery duration of  *)
(* its route and driver (the duration, not the clock time of arrival) is   *)
(* at most parseTime(order.deliveryTime) + 10.                             *)
(***************************************************************************)
\* baseTimeMin x traffic multiplier x fatigue multiplier.
DurationOf(route, driver) ==
    LET traffic == CASE route.trafficLevel = "LOW" -> Num(1)
                     [] route.trafficLevel = "MEDIUM" -> Rat(6, 5)
                     [] route.trafficLevel = "HIGH" -> Rat(3, 2)
        fatigue == IF driver.pastWeekHours[7] > 8 THEN Rat(13, 10) ELSE Num(1)
    IN  RMul(RMul(Num(route.baseTimeMin), traffic), fatigue)

C14_OnTimeByDuration ==
    Called("order") =>
        (fnOut[1].isOnTime <=>
            RLe(DurationOf(fnIn.route, fnIn.driver),
                Num(parseTime(fnIn.order.deliveryTime) + 10)))

\* On time although the clock time of arrival is past the deadline and its
\* grace, and on time with the duration exactly at deadline plus ten.
C14_Witness ==
    /\ Called("order")
    /\ fnOut[1].isOnTime
    /\ \/ RLt(Num(fnOut[1].expectedTime + 10),
              RAdd(fnIn.clock, fnOut[1].actualDeliveryTime))
       \/ fnOut[1].actualDeliveryTime = Num(fnOut[1].expectedTime + 10)

(***************************************************************************)
(* C15.  A late order result has penalty 50 and bonus 0; an on-time one    *)
(* with valueRs above 1000 has bonus valueRs / 10 and penalty 0; any other *)
(* (on time, valueRs at most 1000) has both 0.  Never both non-zero.       *)
(***************************************************************************)
C15_PenaltyAndBonus ==
    Called("order") =>
        LET out == fnOut[1]
            valueRs == fnIn.order.valueRs
        IN  /\ ~out.isOnTime => (out.penalty = Num(50) /\ out.bonus = Num(0))
            /\ (out.isOnTime /\ valueRs > 1000) =>
                  (out.bonus = Rat(valueRs, 10) /\ out.penalty = Num(0))
            /\ (out.isOnTime /\ valueRs <= 1000) =>
                  (out.bonus = Num(0) /\ out.penalty = Num(0))
            /\ out.penalty = Num(0) \/ out.bonus = Num(0)

\* An on-time order of exactly 1000.
C15_Witness ==
    /\ Called("order")
    /\ fnOut[1].isOnTime
    /\ fnIn.order.valueRs = 1000
    /\ fnOut[1].bonus = Num(0)

(***************************************************************************)
(* C16.  The delivery duration is baseTimeMin times the traffic multiplier *)
(* (LOW 1, MEDIUM 1.2, HIGH 1.5), times 1.3 exactly when pastWeekHours[6]  *)
(* is above 8; it is the same for every clock value, so the assignment     *)
(* pass's estimate and the replay's value agree.                           *)
(***************************************************************************)
C16_DurationFormula ==
    Called("delivery") =>
        /\ fnOut[1].estimatedTime = DurationOf(fnIn.route, fnIn.driver)
        /\ fnOut[1].actualDeliveryTime = fnOut[1].estimatedTime

\* Yesterday's hours exactly 8, two different clocks.
C16_Witness ==
    /\ Called("delivery")
    /\ fnIn.driver.pastWeekHours[7] = 8
    /\ fnIn.route.trafficLevel = "MEDIUM"
    /\ fnIn.clocks[1] # fnIn.clocks[2]
    /\ fnOut[1].estimatedTime = RMul(Num(fnIn.route.baseTimeMin), Rat(6, 5))

(***************************************************************************)
(* C17.  The efficiency computed for a driver is at most 100 (it may be    *)
(* negative: nothing bounds it from below).                                *)
(***************************************************************************)
C17_EfficiencyAtMost100 ==
    Called("efficiency") => RLe(fnOut[1], Num(100))

\* The bound is attained where the cap on utilization binds.
C17_Witness ==
    /\ Called("efficiency")
    /\ RLt(Num(fnIn.driver.shiftHours * 60), fnIn.totalTime)
    /\ fnOut[1] = Num(100)

(***************************************************************************)
(* C19.  Each of the four recommendations is in the summary exactly when   *)
(* its own condition holds, whatever the other three do, also when         *)
(* totalProfit is zero or negative.                                        *)
(***************************************************************************)
Recommended(summ, text) ==
    \E i \in 1..Len(summ.recommendations) : summ.recommendations[i] = text

C19_RulesAreIndependent ==
    Called("summary") =>
        LET summ == fnOut[1]
        IN  /\ Recommended(summ, RecEfficiency) <=> RLt(fnIn.efficiency, Num(70))
            /\ Recommended(summ, RecPenalties) <=>
                  RLt(RMul(Rat(1, 10), fnIn.profit), fnIn.penalties)
            /\ Recommended(summ, RecFuel) <=>
                  RLt(RMul(Rat(3, 10), fnIn.profit), fnIn.fuelCost)
            /\ Recommended(summ, RecBonuses) <=>
                  RLt(fnIn.bonuses, RMul(Rat(1, 20), fnIn.profit))

\* A loss: three rules fire together, the fourth does not.
C19_Witness ==
    /\ Called("summary")
    /\ RLt(fnIn.profit, Num(0))
    /\ Len(fnOut[1].recommendations) = 3
    /\ ~Recommended(fnOut[1], RecBonuses)

(***************************************************************************)
(* C20.  As stated: formatTime(parseTime(s)) = s for every string the time *)
(* pattern accepts.                                                        *)
(***************************************************************************)
C20_RoundTripOnPattern ==
    (Called("time") /\ MatchesTimeRegex(fnIn.timeStr)) => fnOut[1] = fnIn.timeStr

(***************************************************************************)
(* C20, amended.  formatTime(parseTime(s)) = s for every string the time   *)
(* pattern accepts whose hour is written with two digits; a one-digit hour *)
(* comes back zero-padded.                                                 *)
(***************************************************************************)
C20_RoundTripTwoDigitHour ==
    (Called("time") /\ MatchesTimeRegex(fnIn.timeStr)) =>
        IF Len(fnIn.timeStr) = 5
            THEN fnOut[1] = fnIn.timeStr
            ELSE fnOut[1] = <<"0">> \o fnIn.timeStr

\* An accepted string with a two-digit hour from 20 on, converted back.
C20_Witness ==
    /\ Called("time")
    /\ MatchesTimeRegex(fnIn.timeStr)
    /\ Len(fnIn.timeStr) = 5
    /\ fnIn.timeStr[1] = "2"
    /\ fnOut[1] = fnIn.timeStr

(***************************************************************************)
(* C18.  efficiencyScore is the arithmetic mean of the efficiency of       *)
(* exactly the drivers that hold at least one order: driverAssignments has *)
(* one entry for each such driver and none for a driver without an order,  *)
(* who therefore does not enter the mean as a 0; with no entry it is 0.    *)
(***************************************************************************)
EfficiencyOf(r) == r.efficiency

\* The loaded drivers some placed order went to.
DriversWithOrders ==
    { d \in {drivers[i].id : i \in 1..Len(drivers)} :
        \E orderId \in AssignedOrderIds : HolderOf(orderId) = d }

C18_MeanOverAssignedDrivers ==
    pc \in {"saveSimulation", "return", "done"} =>
        LET n == Len(driverAssignments)
        IN  /\ {driverAssignments[i].driverId : i \in 1..n} = DriversWithOrders
            /\ n = Cardinality(DriversWithOrders)
            /\ \A i \in 1..n : driverAssignments[i].assignedOrders # <<>>
            /\ IF n = 0
                 THEN efficiencyScore = Num(0)
                 ELSE RMul(efficiencyScore, Num(n)) =
                        SumOver(driverAssignments, EfficiencyOf)
            /\ returned # <<>> => returned[1].efficiencyScore = efficiencyScore

\* Two drivers loaded, one of them without an order, the other's efficiency
\* not 0.
C18_Witness ==
    /\ pc = "done"
    /\ Len(drivers) = 2
    /\ Len(driverAssignments) = 1
    /\ efficiencyScore # Num(0)
    /\ returned[1].efficiencyScore = driverAssignments[1].efficiency

(***************************************************************************)
(* C13.  A run computes from one snapshot of the store: also when order    *)
(* and route requests are handled between its three loads, every loaded    *)
(* order's route is among the loaded routes.                               *)
(***************************************************************************)
Loaded ==
    pc \in {"check", "assign", "replayDriver", "replayOrder", "saveSimulation",
            "return", "done"}

C13_LoadsAreOneSnapshot ==
    Loaded =>
        \A i \in 1..Len(orders) :
            \E j \in 1..Len(routes) : routes[j].id = orders[i].routeId

(***************************************************************************)
(* C12.  With several runSimulation calls in progress at once over         *)
(* unchanged driver, route and order data: every call that gets past its   *)
(* write has inserted exactly one row, the rows of the other calls stay as *)
(* they were written, and each call ends as the same request ends when it  *)
(* is the only call.                                                       *)
(***************************************************************************)
ContextOf(r) == IF r = self THEN Context ELSE parked[r]

Written == {r \in 1..Len(parked) : ContextOf(r).pc \in {"return", "done"}}

\* The row call r hands to the store, from its own locals.
RowOf(r) ==
    LET c == ContextOf(r)
    IN  SimulationRow(c.request,
                      [totalProfit |-> c.totalProfit,
                       efficiencyScore |-> c.efficiencyScore,
                       onTimeDeliveries |-> c.onTimeDeliveries,
                       totalDeliveries |-> c.totalDeliveries,
                       fuelCost |-> c.totalFuelCost,
                       penalties |-> c.totalPenalties,
                       bonuses |-> c.totalBonuses],
                      [driverAssignments |-> c.driverAssignments,
                       orderResults |-> c.orderResults,
                       summary |-> c.summary])

C12_ConcurrentRunsAreIndependent ==
    /\ Len(dbSimulations) = Cardinality(Written)
    /\ \E f \in [Written -> 1..Len(dbSimulations)] :
          /\ \A r1, r2 \in Written : f[r1] = f[r2] => r1 = r2
          /\ \A r \in Written : dbSimulations[f[r]] = RowOf(r)
    /\ \A r \in 1..Len(parked) :
          LET c == ContextOf(r)
              alone == RunAlone(dbDrivers, dbOrders, dbRoutes, c.request)
          IN  /\ c.pc = "done" =>
                    (c.returned # <<>> /\ c.returned = alone.returned)
              /\ c.pc = "failed" =>
                    /\ c.returned = <<>>
                    /\ c.thrown # <<>>
                    /\ c.thrown = alone.thrown \/ c.thrown = <<ErrPersistence>>

\* One call has written its row and another, with a different request, is
\* suspended in its own write, both having placed orders.
C12_Witness ==
    /\ pc = "return"
    /\ Len(dbSimulations) = 1
    /\ \E r \in 1..Len(parked) :
          /\ r # self
          /\ parked[r].pc = "saveSimulation"
          /\ parked[r].request # request
          /\ parked[r].totalDeliveries > 0
          /\ parked[r].totalProfit # totalProfit
    /\ totalDeliveries > 0

(***************************************************************************)
(* C21.  driverCount never bounds participation: the drivers cycled over   *)
(* are exactly the active drivers the driverIds filter lets through (all   *)
(* active drivers when the filter is absent or empty), and the request     *)
(* with any other driverCount >= 1 has the same assignments, order results *)
(* and totals.                                                             *)
(***************************************************************************)
\* The ids of the active drivers of the store that pass the request's filter.
EligibleDriverIds ==
    { dbDrivers[i].id : i \in { k \in 1..Len(dbDrivers) :
        /\ dbDrivers[k].isActive
        /\ request.driverIds = {} \/ dbDrivers[k].id \in request.driverIds } }

SameInputs(c1, c2) ==
    /\ c1.drivers = c2.drivers
    /\ c1.orders = c2.orders
    /\ c1.routes = c2.routes
    /\ c1.request.routeStartTime = c2.request.routeStartTime
    /\ c1.request.maxHours = c2.request.maxHours

C22_SameInputsSameAssignment ==
    \A r1, r2 \in 1..Len(parked) :
        LET c1 == ContextOf(r1)
            c2 == ContextOf(r2)
        IN  (c1.pc = "done" /\ c2.pc = "done" /\ SameInputs(c1, c2)) =>
                /\ c1.returned[1].simulationData.driverAssignments =
                       c2.returned[1].simulationData.driverAssignments
                /\ c1.returned[1].simulationData.orderResults =
                       c2.returned[1].simulationData.orderResults

\* Two finished calls with the same inputs, each with two drivers' orders.
C22_Witness ==
    /\ pc = "done"
    /\ \E r \in 1..Len(parked) :
          /\ r # self
          /\ parked[r].pc = "done"
          /\ SameInputs(Context, parked[r])
          /\ Len(parked[r].returned[1].simulationData.driverAssignments) >= 2
    /\ Len(orderResults) >= 2

(***************************************************************************)
(* The order handlers on their own: POST /api/orders, PUT /api/orders/:id  *)
(* and DELETE /api/orders/:id, any number of them in flight at once.       *)
(***************************************************************************)

\* PUT /api/orders/:id with body { orderId: NewOrderId }.
PutOrderRequest(id) == [op |-> "putOrder", id |-> id, at |-> "findFirst", status |-> 0]

OrderHandlerRequests ==
    {CreateOrderRequest(1), PutOrderRequest(1), PutOrderRequest(2), DeleteOrderRequest(1)}

InitOrders ==
    /\ dbDrivers = <<>>
    /\ dbOrders \in CrudOrderStores
    /\ dbRoutes = RouteStore
    /\ dbSimulations = <<>>
    /\ request = Request(T0800, 8, {}, {})
    /\ pc = "idle"
    /\ LocalsInit
    /\ handlers \in [1..MaxHandlers -> OrderHandlerRequests]
    /\ FnIdle /\ OneRun /\ NoCaller

\* prisma.order.findFirst({ where: { id, isActive: true } }); the body has
\* no routeId, so the route is not looked up; the orderId check is made
\* only when the body's orderId differs from the row's.
PutOrderFindFirst(h) ==
    /\ AtAwait
    /\ handlers[h].op = "putOrder" /\ handlers[h].at = "findFirst"
    /\ IF ~HasActive(dbOrders, handlers[h].id)
         THEN Respond(h, 404)
         ELSE IF dbOrders[FindById(dbOrders, handlers[h].id)].orderId # NewOrderId
           THEN handlers' = [handlers EXCEPT ![h].at = "findExisting"]
           ELSE handlers' = [handlers EXCEPT ![h].at = "update"]
    /\ UNCHANGED <<dbVars, dbSimulations, runVars, fnVars, runnerVars, authVars>>

\* prisma.order.findFirst({ where: { orderId, isActive: true, id: { not: id } } })
PutOrderFindExisting(h) ==
    /\ AtAwait
    /\ handlers[h].op = "putOrder" /\ handlers[h].at = "findExisting"
    /\ IF \E i \in 1..Len(dbOrders) :
             /\ dbOrders[i].orderId = NewOrderId /\ dbOrders[i].isActive
             /\ dbOrders[i].id # handlers[h].id
         THEN Respond(h, 409)
         ELSE handlers' = [handlers EXCEPT ![h].at = "update"]
    /\ UNCHANGED <<dbVars, dbSimulations, runVars, fnVars, runnerVars, authVars>>

\* prisma.order.update({ where: { id }, data: { orderId } })
PutOrderUpdate(h) ==
    /\ AtAwait
    /\ handlers[h].op = "putOrder" /\ handlers[h].at = "update"
    /\ IF /\ HasActive(dbOrders, handlers[h].id)
          /\ OrderIdTaken(dbOrders, NewOrderId, handlers[h].id)
         THEN Respond(h, 500) /\ UNCHANGED dbOrders
         ELSE /\ dbOrders' =
                    [i \in 1..Len(dbOrders) |->
                        IF dbOrders[i].id = handlers[h].id
                          THEN [dbOrders[i] EXCEPT !.orderId = NewOrderId]
                          ELSE dbOrders[i]]
              /\ Respond(h, 200)
    /\ UNCHANGED <<dbDrivers, dbRoutes, dbSimulations, runVars, fnVars, runnerVars, authVars>>

NextOrders ==
    \/ \E h \in 1..Len(handlers) : CreateOrderFindRoute(h)
    \/ \E h \in 1..Len(handlers) : CreateOrderFindExisting(h)
    \/ \E h \in 1..Len(handlers) : CreateOrderCreate(h)
    \/ \E h \in 1..Len(handlers) : PutOrderFindFirst(h)
    \/ \E h \in 1..Len(handlers) : PutOrderFindExisting(h)
    \/ \E h \in 1..Len(handlers) : PutOrderUpdate(h)
    \/ \E h \in 1..Len(handlers) : DeleteOrderFindFirst(h)
    \/ \E h \in 1..Len(handlers) : DeleteOrderUpdate(h)

SpecOrders == InitOrders /\ [][NextOrders]_vars

C29_ActiveOrdersOnActiveRoutes ==
    \A i \in 1..Len(dbOrders) :
        dbOrders[i].isActive => HasActive(dbRoutes, dbOrders[i].routeId)

(***************************************************************************)
(* C24.  A driver's assignment is created when the first order is placed   *)
(* with that driver; its start-clock is the shared clock at that moment,   *)
(* before the order's duration is added, and no later step changes it.     *)
(***************************************************************************)
StampedAtFirstOrder ==
    \A i \in 1..Len(assignments) :
        /\ Len(assignments[i].orderIds) >= 1
        /\ assignments[i].startTime =
              ClockBefore(PositionOf(assignments[i].orderIds[1]))

StampsKept ==
    \A i \in 1..Len(assignments) :
        /\ i <= Len(assignments')
        /\ assignments'[i].driverId = assignments[i].driverId
        /\ assignments'[i].startTime = assignments[i].startTime

C24_StartClockIsSetOnce ==
    /\ [](pc = "assign" => StampedAtFirstOrder)
    /\ [][StampsKept]_vars

\* One assignment was stamped after the clock had moved, and one received a
\* further order after it was created.
C24_Witness ==
    /\ pc = "done"
    /\ \E i \in 1..Len(assignments) : assignments[i].startTime # Num(startTime)
    /\ \E i \in 1..Len(assignments) : Len(assignments[i].orderIds) >= 2

(***************************************************************************)
(* C25.  In a returned result, fuelCost, penalties and bonuses are the     *)
(* sums of those fields over orderResults, and totalProfit is the summed   *)
(* valueRs of the orders in orderResults plus bonuses minus penalties      *)
(* minus fuelCost.                                                         *)
(***************************************************************************)
C25_ProfitIdentity ==
    (pc = "done" /\ returned # <<>>) =>
        LET res == returned[1]
            ors == res.simulationData.orderResults
        IN  /\ res.fuelCost = SumOver(ors, FuelOf)
            /\ res.penalties = SumOver(ors, PenaltyOf)
            /\ res.bonuses = SumOver(ors, BonusOf)
            /\ res.totalProfit =
                  RSub(RSub(RAdd(SumOver(ors, ValueOfResult), res.bonuses),
                            res.penalties),
                       res.fuelCost)

\* A returned result with a bonus, a penalty and fuel in it.
C25_Witness ==
    /\ pc = "done" /\ returned # <<>>
    /\ Len(returned[1].simulationData.orderResults) >= 2
    /\ RLt(Num(0), returned[1].bonuses)
    /\ RLt(Num(0), returned[1].penalties)
    /\ RLt(Num(0), returned[1].fuelCost)

(***************************************************************************)
(* C26.  In a returned result, totalDeliveries is the number of            *)
(* orderResults and the summed length of the drivers' assignedOrders;      *)
(* onTimeDeliveries <= totalDeliveries <= summary.totalOrders; and         *)
(* penalties is 50 times the number of late deliveries.                    *)
(***************************************************************************)
RECURSIVE SumAssignedOrders(_)
SumAssignedOrders(das) ==
    IF das = <<>> THEN 0
    ELSE Len(Head(das).assignedOrders) + SumAssignedOrders(Tail(das))

C26_DeliveryCounts ==
    (pc = "done" /\ returned # <<>>) =>
        LET res == returned[1]
            data == res.simulationData
        IN  /\ res.totalDeliveries = Len(data.orderResults)
            /\ res.totalDeliveries = SumAssignedOrders(data.driverAssignments)
            /\ res.onTimeDeliveries <= res.totalDeliveries
            /\ res.totalDeliveries <= data.summary.totalOrders
            /\ res.penalties = Num(50 * (res.totalDeliveries - res.onTimeDeliveries))

\* A returned result with an on-time delivery, a late one and a dropped order.
C26_Witness ==
    /\ pc = "done" /\ returned # <<>>
    /\ returned[1].onTimeDeliveries >= 1
    /\ returned[1].onTimeDeliveries < returned[1].totalDeliveries
    /\ returned[1].totalDeliveries < returned[1].simulationData.summary.totalOrders

(***************************************************************************)
(* C27.  In a returned result every input order is in at most one          *)
(* driver's assignedOrders and at most once in orderResults; there is at   *)
(* most one driverAssignments entry per driver; every entry holds at least *)
(* one order; and within an entry the orders keep their relative input     *)
(* order.                                                                  *)
(***************************************************************************)
C27_AssignmentShape ==
    (pc = "done" /\ returned # <<>>) =>
        LET das == returned[1].simulationData.driverAssignments
            ors == returned[1].simulationData.orderResults
        IN  /\ \A i, j \in 1..Len(das) :
                  \A p \in 1..Len(das[i].assignedOrders) :
                      \A q \in 1..Len(das[j].assignedOrders) :
                          das[i].assignedOrders[p] = das[j].assignedOrders[q]
                              => (i = j /\ p = q)
            /\ \A i, j \in 1..Len(ors) : ors[i].orderId = ors[j].orderId => i = j
            /\ \A i, j \in 1..Len(das) : das[i].driverId = das[j].driverId => i = j
            /\ \A i \in 1..Len(das) : Len(das[i].assignedOrders) >= 1
            /\ \A i \in 1..Len(das) :
                  \A p, q \in 1..Len(das[i].assignedOrders) :
                      p < q => PositionOf(das[i].assignedOrders[p])
                                  < PositionOf(das[i].assignedOrders[q])

\* Two drivers have entries and one of them holds two orders.
C27_Witness ==
    /\ pc = "done" /\ returned # <<>>
    /\ Len(returned[1].simulationData.driverAssignments) >= 2
    /\ \E i \in 1..Len(returned[1].simulationData.driverAssignments) :
          Len(returned[1].simulationData.driverAssignments[i].assignedOrders) >= 2

(***************************************************************************)
(* C28.  When drivers and orders were loaded but no order passed the       *)
(* capacity check, the run does not fail on that account: it writes and    *)
(* returns a result with empty driverAssignments and orderResults, zero    *)
(* deliveries, zero monetary totals, efficiencyScore 0 and profitMargin 0. *)
(* (The only failure left is the store rejecting the write.)               *)
(***************************************************************************)
NothingPlaced ==
    /\ drivers # <<>> /\ orders # <<>>
    /\ orderPos > Len(orders)
    /\ assignments = <<>>

C28_NothingPlacedStillSucceeds ==
    /\ (pc = "failed" /\ NothingPlaced) => thrown = <<ErrPersistence>>
    /\ (pc = "done" /\ NothingPlaced) =>
          /\ Len(returned) = 1
          /\ LET res == returned[1]
             IN  /\ res.simulationData.driverAssignments = <<>>
                 /\ res.simulationData.orderResults = <<>>
                 /\ res.totalDeliveries = 0 /\ res.onTimeDeliveries = 0
                 /\ res.totalProfit = Num(0) /\ res.fuelCost = Num(0)
                 /\ res.penalties = Num(0) /\ res.bonuses = Num(0)
                 /\ res.efficiencyScore = Num(0)
                 /\ res.simulationData.summary.profitMargin = Num(0)
                 /\ Len(dbSimulations) = 1
                 /\ RowMatches(dbSimulations[1], res)

C28_Witness ==
    /\ pc = "done" /\ NothingPlaced
    /\ Len(orders) >= 2
    /\ returned # <<>>

(***************************************************************************)
(* The auth and user routers as one caller meets them.  The caller starts  *)
(* without a token and does not know the passwords of the seeded accounts. *)
(***************************************************************************)
RoleAdmin == "ADMIN"
RoleManager == "MANAGER"

PwAdmin == <<"a", "d", "m", "i", "n", "1", "2", "3">>
PwManager == <<"m", "a", "n", "a", "g", "e", "r", "1", "2", "3">>
PwSix == <<"s", "e", "c", "r", "e", "t">>
PwFive == <<"s", "e", "c", "r", "e">>

\* bcrypt.hash and bcrypt.compare: the hash is not the password, and a
\* password matches exactly the hashes made from it.
BcryptHash(password) == <<"$2b$10$">> \o password
BcryptCompare(password, passwordHash) == passwordHash = BcryptHash(password)

\* jwt.sign and jwt.verify with the server's secret.
JwtSign(payload) == [payload |-> payload, key |-> "JWT_SECRET"]
JwtVerify(t) == t.key = "JWT_SECRET"

UserRow(id, username, password, role) ==
    [id |-> id, username |-> username, passwordHash |-> BcryptHash(password),
     role |-> role, isActive |-> TRUE]

\* The default accounts of the README.
SeededUsers ==
    << UserRow(1, "admin", PwAdmin, RoleAdmin),
       UserRow(2, "manager", PwManager, RoleManager) >>

\* What the caller sends: names, passwords it can think of, the role field
\* present or absent, and the Authorization header: none, the token it was
\* given, or one it signed itself.
CallerNames == {"admin", "eve", "mallory"}
CallerPasswords == {PwSix, PwFive}
CallerRoles == {<<>>, <<RoleAdmin>>, <<RoleManager>>}
ForgedToken ==
    [payload |-> [id |-> 1, username |-> "admin", role |-> RoleAdmin], key |-> "guess"]
CallerHeaders == {<<>>, <<ForgedToken>>} \cup {token}

InitAuth ==
    /\ RunIdle
    /\ FnIdle /\ NoHandlers /\ OneRun
    /\ dbUsers = SeededUsers
    /\ token = <<>>
    /\ response = NoResponse

FindUser(username) ==
    IF \E i \in 1..Len(dbUsers) : dbUsers[i].username = username
        THEN CHOOSE i \in 1..Len(dbUsers) :
                /\ dbUsers[i].username = username
                /\ \A j \in 1..(i - 1) : dbUsers[j].username # username
        ELSE 0

Answer(op, status) == response' = [op |-> op, status |-> status]

\* const { ..., role = 'MANAGER' } = req.body; ... role: role as 'ADMIN' | 'MANAGER'
RegisteredRole(role) == IF role = <<>> THEN RoleManager ELSE role[1]

\* POST /api/auth/register: no middleware in front of the handler.
Register(username, password, role) ==
    /\ IF Len(password) < 6
         THEN Answer("register", 400) /\ UNCHANGED dbUsers
         ELSE IF FindUser(username) # 0
           THEN Answer("register", 409) /\ UNCHANGED dbUsers
           ELSE /\ dbUsers' = Append(dbUsers,
                        UserRow(Len(dbUsers) + 1, username, password,
                                RegisteredRole(role)))
                /\ Answer("register", 201)
    /\ UNCHANGED <<token, dbVars, dbSimulations, runVars, fnVars, handlers, runnerVars>>

\* POST /api/auth/login
Login(username, password) ==
    /\ LET i == FindUser(username)
       IN  IF i = 0 \/ ~dbUsers[i].isActive
             THEN Answer("login", 401) /\ UNCHANGED token
             ELSE IF ~BcryptCompare(password, dbUsers[i].passwordHash)
               THEN Answer("login", 401) /\ UNCHANGED token
               ELSE /\ token' = <<JwtSign([id |-> dbUsers[i].id,
                                           username |-> dbUsers[i].username,
                                           role |-> dbUsers[i].role])>>
                    /\ Answer("login", 200)
    /\ UNCHANGED <<dbUsers, dbVars, dbSimulations, runVars, fnVars, handlers, runnerVars>>

\* authenticateToken, then requireRole(roles): 0 when the request goes on
\* to the handler, else the status of the error.
Guard(header, roles) ==
    IF header = <<>> THEN 401
    ELSE IF ~JwtVerify(header[1]) THEN 401
    ELSE IF header[1].payload.role \notin roles THEN 403
    ELSE 0

requireAdmin == {RoleAdmin}

\* GET /api/users
ListUsers(header) ==
    /\ IF Guard(header, requireAdmin) # 0
         THEN Answer("listUsers", Guard(header, requireAdmin))
         ELSE Answer("listUsers", 200)
    /\ UNCHANGED <<dbUsers, token, dbVars, dbSimulations, runVars, fnVars, handlers,
                   runnerVars>>

\* POST /api/users: role is taken from the body as it is.
CreateUser(header, username, password, role) ==
    /\ role # <<>>
    /\ IF Guard(header, requireAdmin) # 0
         THEN Answer("createUser", Guard(header, requireAdmin)) /\ UNCHANGED dbUsers
         ELSE IF FindUser(username) # 0
           THEN Answer("createUser", 409) /\ UNCHANGED dbUsers
           ELSE /\ dbUsers' = Append(dbUsers,
                        UserRow(Len(dbUsers) + 1, username, password, role[1]))
                /\ Answer("createUser", 201)
    /\ UNCHANGED <<token, dbVars, dbSimulations, runVars, fnVars, handlers, runnerVars>>

NextAuth ==
    \/ \E u \in CallerNames, p \in CallerPasswords, r \in CallerRoles : Register(u, p, r)
    \/ \E u \in CallerNames, p \in CallerPasswords : Login(u, p)
    \/ \E h \in CallerHeaders : ListUsers(h)
    \/ \E h \in CallerHeaders, u \in CallerNames, p \in CallerPasswords, r \in CallerRoles :
          CreateUser(h, u, p, r)

SpecAuth == InitAuth /\ [][NextAuth]_vars

(***************************************************************************)
(* C30.  An ADMIN account comes into existence only through a request      *)
(* authenticated as an existing ADMIN: a caller that starts without a      *)
(* token never brings about a new ADMIN account, never holds a token with  *)
(* the ADMIN role and is never let into the admin-only user endpoints.     *)
(***************************************************************************)
AdminAccounts == {i \in 1..Len(dbUsers) : dbUsers[i].role = RoleAdmin}

C30_NoAdminFromOutside ==
    /\ AdminAccounts = {1}
    /\ token # <<>> => token[1].payload.role # RoleAdmin
    /\ response.op \in {"listUsers", "createUser"} => response.status \in {401, 403}

====
